---- MODULE Spec2Model ----
(***************************************************************************)
(* A model of the bReader segmentation pipeline of vadim-kosarev/tools:    *)
(* the metadata store (metadata_manager.py, ParseResultCollector), the     *)
(* section extractor (extract_fb2.py) and the chunk persistence of         *)
(* md_to_chunks.py.                                                        *)
(*                                                                         *)
(* Values.  A Python/JSON value is a tagged record:                        *)
(*   [t |-> "null"], [t |-> "bool", b], [t |-> "int", n], [t |-> "str", s],*)
(*   [t |-> "list", l], [t |-> "dict", m]  (m a function from key strings),*)
(*   [t |-> "tuple", l]  (a Python tuple: json writes it as an array),     *)
(*   [t |-> "obj"]       (a Python object json.dump cannot serialise).     *)
(* A dotted path "a.b.c" is the sequence of its segments <<"a","b","c">>;  *)
(* the empty path string is <<>>.                                          *)
(* The backing file is [k |-> "missing"], [k |-> "corrupt"] (not valid     *)
(* JSON, e.g. truncated), [k |-> "unreadable"] (open() raises an OSError   *)
(* other than FileNotFoundError) or [k |-> "json", v |-> value].           *)
(***************************************************************************)
EXTENDS Integers, Sequences, FiniteSets, TLC

VARIABLES
    file,       \* the backing metadata file
    built,      \* TRUE once ParseResultCollector.__init__ has run
    nops,       \* number of store calls made so far (bounded by MaxOps)
    last,       \* the last store call: its arguments, the file before it, its outcome
    rpc,        \* two writer processes: where each is in its set call
    rarg,       \* the path and value each process sets
    rdata,      \* the structure each process loaded
    rlog,       \* the order of the loads and saves
    doc,        \* the document tree being extracted
    artifacts,  \* the section files of output_dir/sections: name -> content
    xpc,        \* extraction: "idle", "scan" (between candidates), "record" (in add_section)
    pos,        \* extraction: index of the candidate being looked at
    counter,    \* extraction: section_counter[0]
    pend,       \* extraction: the section add_section is persisting
    hist,       \* extraction: how each run so far ended ("done" or "crash")
    runlog,     \* extraction: what the current run found and did
    ctext,      \* chunking: md_content, the section text
    cargs,      \* chunking: the sizes, section_idx and section_file of the call
    cpc,        \* chunking: "idle", "write" (in the metadata loop), "persist"
    clocal,     \* chunking: the local variables of split_markdown_into_chunks
    chunkfiles, \* the chunk files of chunks_dir: name -> text
    chist,      \* chunking: how each call so far ended, with the records stored then
    xml,        \* content isolation: the section element given to extract_section_content
    content,    \* content isolation: what extract_section_content returned
    sinput,     \* splitting: the content and threshold given to the splitter
    sparts,     \* splitting: the parts split_long_section_by_paragraphs returned
    transcripts,   \* transcribing: media file -> the transcription files next to it
    skip_existing, \* transcribing: the skip_existing argument of process_directory
    failed_files,  \* transcribing: the failed_files set of process_directory
    stats,         \* transcribing: the stats dictionary of process_directory
    tpc,           \* transcribing: "start", "scan" (top of the loop), "run", "returned"
    file_path      \* transcribing: the media file being processed

storeVars == <<file, built, nops, last>>
raceVars == <<rpc, rarg, rdata, rlog>>
extractVars == <<doc, artifacts, xpc, pos, counter, pend, hist, runlog>>
chunkVars == <<ctext, cargs, cpc, clocal, chunkfiles, chist>>
pureVars == <<xml, content, sinput, sparts>>
transVars == <<transcripts, skip_existing, failed_files, stats, tpc, file_path>>

vars == <<file, built, nops, last, rpc, rarg, rdata, rlog,
          doc, artifacts, xpc, pos, counter, pend, hist, runlog,
          ctext, cargs, cpc, clocal, chunkfiles, chist,
          xml, content, sinput, sparts,
          transcripts, skip_existing, failed_files, stats, tpc, file_path>>

(***************************************************************************)
(* Bounds of the model.                                                    *)
(***************************************************************************)
MaxOps == 2
MaxKids == 2
MaxRuns == 2
MaxCrashes == 1

\* extract_section_recursive: max_section_size
MaxSectionSize == 100000

(***************************************************************************)
(* Values                                                                  *)
(***************************************************************************)
Null == [t |-> "null"]
Bool(b) == [t |-> "bool", b |-> b]
Num(n) == [t |-> "int", n |-> n]
Str(s) == [t |-> "str", s |-> s]
List(l) == [t |-> "list", l |-> l]
Tuple(l) == [t |-> "tuple", l |-> l]
Dict(f) == [t |-> "dict", m |-> f]
Obj == [t |-> "obj"]

EmptyMap == [k \in {} |-> Null]
Put(f, k, v) == [y \in DOMAIN f \cup {k} |-> IF y = k THEN v ELSE f[y]]
Del(f, k) == [y \in DOMAIN f \ {k} |-> f[y]]
IsDict(v) == v.t = "dict"
HasKey(v, k) == IsDict(v) /\ k \in DOMAIN v.m

Missing == [k |-> "missing"]
Corrupt == [k |-> "corrupt"]
Unreadable == [k |-> "unreadable"]
JsonFile(v) == [k |-> "json", v |-> v]

(***************************************************************************)
(* json.dump / json.load.  Serialisable: no "obj" anywhere.  ToJson is the *)
(* value json.load reads back from what json.dump wrote: a tuple comes     *)
(* back as a list.                                                          *)
(***************************************************************************)
RECURSIVE Serialisable(_)
Serialisable(v) ==
    CASE v.t = "obj" -> FALSE
      [] v.t = "dict" -> \A k \in DOMAIN v.m : Serialisable(v.m[k])
      [] v.t \in {"list", "tuple"} -> \A i \in 1..Len(v.l) : Serialisable(v.l[i])
      [] OTHER -> TRUE

RECURSIVE ToJson(_)
ToJson(v) ==
    CASE v.t = "dict" -> Dict([k \in DOMAIN v.m |-> ToJson(v.m[k])])
      [] v.t \in {"list", "tuple"} -> List([i \in 1..Len(v.l) |-> ToJson(v.l[i])])
      [] OTHER -> v

(***************************************************************************)
(* str(x) and int(key) on the keys the model uses.  int() accepts the      *)
(* canonical decimals and also forms such as "01"; everything else raises  *)
(* ValueError.                                                              *)
(***************************************************************************)
IntRange == -3..40
NonCanonical == [k \in {"01"} |-> 1]

PyStr(v) ==
    CASE v.t = "int" -> ToString(v.n)
      [] v.t = "str" -> v.s
      [] v.t = "null" -> "None"
      [] OTHER -> "<repr>"

ParsesInt(key) ==
    \/ \E n \in IntRange : ToString(n) = key
    \/ key \in DOMAIN NonCanonical

IntOfKey(key) ==
    IF key \in DOMAIN NonCanonical THEN NonCanonical[key]
    ELSE CHOOSE n \in IntRange : ToString(n) = key

(***************************************************************************)
(* _ensure_file_exists, _load_from_file, _save_to_file                     *)
(***************************************************************************)
InitialData == Dict([k \in {"sections", "chunks"} |-> Dict(EmptyMap)])

EnsureFileExists(f) == IF f.k = "missing" THEN JsonFile(InitialData) ELSE f

\* the legacy list layout folded into an index-keyed mapping
RECURSIVE FoldList(_, _)
FoldList(l, acc) ==
    IF l = <<>> THEN acc
    ELSE FoldList(Tail(l),
                  IF HasKey(Head(l), "idx")
                  THEN Put(acc, PyStr(Head(l).m["idx"]), Head(l))
                  ELSE acc)

ConvertBranch(d, name) ==
    IF d.m[name].t = "list"
    THEN Dict(Put(d.m, name, Dict(FoldList(d.m[name].l, EmptyMap))))
    ELSE d

EnsureBranch(d, name) ==
    IF name \in DOMAIN d.m THEN d ELSE Dict(Put(d.m, name, Dict(EmptyMap)))

Normalise(v) ==
    LET d0 == IF IsDict(v) THEN v ELSE InitialData
        d1 == EnsureBranch(d0, "sections")
        d2 == EnsureBranch(d1, "chunks")
        d3 == ConvertBranch(d2, "sections")
    IN  ConvertBranch(d3, "chunks")

\* [raised, data, file]: file is the backing file after the load
LoadFromFile(f) ==
    CASE f.k = "json" -> [raised |-> FALSE, data |-> Normalise(f.v), file |-> f]
      [] f.k \in {"missing", "corrupt"} ->
            [raised |-> FALSE, data |-> InitialData, file |-> EnsureFileExists(f)]
      [] OTHER -> [raised |-> TRUE, data |-> Null, file |-> f]

\* io: "ok", "open_fails" (open(...,'w') raises: nothing written) or
\* "write_fails" (json.dump raises after open(...,'w') truncated the file)
SaveToFile(f, data, io) ==
    CASE io = "open_fails" -> [raised |-> TRUE, file |-> f]
      [] io = "write_fails" \/ ~Serialisable(data) -> [raised |-> TRUE, file |-> Corrupt]
      [] OTHER -> [raised |-> FALSE, file |-> JsonFile(ToJson(data))]

(***************************************************************************)
(* get: navigate the loaded structure; KeyError and TypeError give default *)
(***************************************************************************)
RECURSIVE Navigate(_, _)
Navigate(cur, parts) ==
    IF parts = <<>> THEN [exc |-> "none", v |-> cur]
    ELSE IF ~IsDict(cur) THEN [exc |-> "TypeError", v |-> Null]
    ELSE IF Head(parts) \notin DOMAIN cur.m THEN [exc |-> "KeyError", v |-> Null]
    ELSE Navigate(cur.m[Head(parts)], Tail(parts))

\* get catching KeyError only
GetKeyErrorOnly(f, path, default) ==
    LET ld == LoadFromFile(f)
        nav == Navigate(ld.data, path)
    IN  IF ld.raised \/ nav.exc = "TypeError" THEN [raised |-> TRUE, ret |-> Null, file |-> ld.file]
        ELSE [raised |-> FALSE,
              ret |-> IF nav.exc = "KeyError" THEN default ELSE nav.v,
              file |-> ld.file]

Get(f, path, default) ==
    LET ld == LoadFromFile(f)
        nav == Navigate(ld.data, path)
    IN  IF ld.raised THEN [raised |-> TRUE, ret |-> Null, file |-> ld.file]
        ELSE [raised |-> FALSE,
              ret |-> IF nav.exc \in {"KeyError", "TypeError"} THEN default ELSE nav.v,
              file |-> ld.file]

(***************************************************************************)
(* set: _create_nested_path over the parent path, parent[key] = value,     *)
(* then save.  A value on the way that is not a dict raises TypeError      *)
(* (no item assignment / unsupported "in"), before anything is saved.      *)
(***************************************************************************)
\* set that puts a fresh mapping at every intermediate segment
RECURSIVE SetInFresh(_, _, _)
SetInFresh(cur, parts, value) ==
    IF ~IsDict(cur) THEN [ok |-> FALSE, v |-> cur]
    ELSE IF Len(parts) = 1 THEN [ok |-> TRUE, v |-> Dict(Put(cur.m, parts[1], value))]
    ELSE LET r == SetInFresh(Dict(EmptyMap), Tail(parts), value)
         IN  [ok |-> TRUE, v |-> Dict(Put(cur.m, parts[1], r.v))]

RECURSIVE SetIn(_, _, _)
SetIn(cur, parts, value) ==
    IF ~IsDict(cur) THEN [ok |-> FALSE, v |-> cur]
    ELSE IF Len(parts) = 1 THEN [ok |-> TRUE, v |-> Dict(Put(cur.m, parts[1], value))]
    ELSE LET child == IF parts[1] \in DOMAIN cur.m THEN cur.m[parts[1]] ELSE Dict(EmptyMap)
             r == SetIn(child, Tail(parts), value)
         IN  IF r.ok THEN [ok |-> TRUE, v |-> Dict(Put(cur.m, parts[1], r.v))] ELSE r

Set(f, path, value, io) ==
    LET ld == LoadFromFile(f)
        r == SetIn(ld.data, path, value)
    IN  IF ld.raised THEN [raised |-> TRUE, ret |-> Null, file |-> ld.file]
        ELSE IF path = <<>> THEN [raised |-> TRUE, ret |-> Null, file |-> ld.file]
        ELSE IF ~r.ok THEN [raised |-> TRUE, ret |-> Null, file |-> ld.file]
        ELSE LET sv == SaveToFile(ld.file, r.v, io)
             IN  [raised |-> sv.raised, ret |-> Null, file |-> sv.file]

(***************************************************************************)
(* add: the container is the value at the path (created when absent); the  *)
(* key is str(record idx) or str(max integer key + 1), max starting at -1. *)
(***************************************************************************)
SetMax(S) == CHOOSE x \in S : \A y \in S : y <= x

RECURSIVE ContainerAt(_, _)
ContainerAt(cur, parts) ==
    IF parts = <<>> THEN [ok |-> TRUE, v |-> cur]
    ELSE IF ~IsDict(cur) THEN [ok |-> FALSE, v |-> cur]
    ELSE ContainerAt(IF Head(parts) \in DOMAIN cur.m THEN cur.m[Head(parts)]
                     ELSE Dict(EmptyMap), Tail(parts))

MaxIntKey(container) ==
    IF IsDict(container)
    THEN SetMax({-1} \cup {IntOfKey(k) : k \in {x \in DOMAIN container.m : ParsesInt(x)}})
    ELSE -1

\* add numbering by the number of entries
AddIdxByCount(container, value) ==
    IF "idx" \in DOMAIN value.m THEN value.m["idx"]
    ELSE Num(IF IsDict(container) THEN Cardinality(DOMAIN container.m) ELSE 0)

AddIdx(container, value) ==
    IF "idx" \in DOMAIN value.m THEN value.m["idx"] ELSE Num(MaxIntKey(container) + 1)

Stamp(value, idx) ==
    LET v1 == Put(value.m, "idx", idx)
    IN  Dict(IF "processed_at" \in DOMAIN v1 THEN v1 ELSE Put(v1, "processed_at", Str("now")))

Add(f, path, value, io) ==
    LET ld == LoadFromFile(f)
        c == ContainerAt(ld.data, path)
        idx == AddIdx(c.v, value)
        r == SetIn(ld.data, path \o <<PyStr(idx)>>, Stamp(value, idx))
    IN  IF ld.raised THEN [raised |-> TRUE, ret |-> Null, file |-> ld.file]
        ELSE IF path = <<>> THEN [raised |-> TRUE, ret |-> Null, file |-> ld.file]
        ELSE IF ~c.ok \/ ~r.ok THEN [raised |-> TRUE, ret |-> Null, file |-> ld.file]
        ELSE LET sv == SaveToFile(ld.file, r.v, io)
             IN  [raised |-> sv.raised, ret |-> Str(PyStr(idx)), file |-> sv.file]

(***************************************************************************)
(* delete                                                                  *)
(***************************************************************************)
RECURSIVE RemoveIn(_, _)
RemoveIn(cur, parts) ==
    IF Len(parts) = 1 THEN Dict(Del(cur.m, parts[1]))
    ELSE Dict(Put(cur.m, parts[1], RemoveIn(cur.m[parts[1]], Tail(parts))))

Delete(f, path, io) ==
    LET ld == LoadFromFile(f)
        parent == Navigate(ld.data, SubSeq(path, 1, Len(path) - 1))
    IN  IF ld.raised THEN [raised |-> TRUE, ret |-> Null, file |-> ld.file]
        ELSE IF path = <<>> THEN [raised |-> FALSE, ret |-> Bool(FALSE), file |-> ld.file]
        ELSE IF parent.exc # "none" \/ ~HasKey(parent.v, path[Len(path)])
             THEN [raised |-> FALSE, ret |-> Bool(FALSE), file |-> ld.file]
        ELSE LET sv == SaveToFile(ld.file, RemoveIn(ld.data, path), io)
             IN  [raised |-> sv.raised, ret |-> Bool(TRUE), file |-> sv.file]

(***************************************************************************)
(* The store under single calls: inputs of the model.                      *)
(***************************************************************************)
SectionRec(idx, title) ==
    Dict([k \in {"idx", "title", "section_file"} |->
            CASE k = "idx" -> Num(idx)
              [] k = "title" -> Str(title)
              [] OTHER -> Str("sections/" \o ToString(idx))])

NewRec(title) == Dict([k \in {"title"} |-> Str(title)])

StoreInitFiles ==
    { Missing, Corrupt, Unreadable,
      JsonFile(InitialData),
      JsonFile(List(<<>>)),
      JsonFile(Dict([k \in {"sections"} |-> List(<<SectionRec(1, "A"), Str("junk")>>)])),
      JsonFile(Dict([k \in {"sections", "chunks", "source_file"} |->
            CASE k = "sections" ->
                    Dict([i \in {"0", "01", "x"} |->
                            IF i = "x" THEN Str("note") ELSE SectionRec(IntOfKey(i), "A")])
              [] k = "chunks" -> Dict(EmptyMap)
              [] OTHER -> Str("book.fb2")])),
      JsonFile(Dict([k \in {"sections", "chunks"} |->
            IF k = "sections" THEN Dict([i \in {"-2"} |-> SectionRec(-2, "B")])
            ELSE Dict(EmptyMap)])) }

StorePaths ==
    { <<>>, <<"sections">>, <<"sections", "0">>, <<"sections", "0", "title">>,
      <<"sections", "x", "y">>, <<"source_file">>, <<"source_file", "x">>,
      <<"chunks", "section_0", "chunks">> }

StoreValues == { Str("v"), Dict(EmptyMap), SectionRec(0, "C"), Tuple(<<Num(1)>>), Obj }

StoreRecords == { NewRec("N"), SectionRec(2, "C"), SectionRec(-2, "D") }

StoreDefaults == { Null, Str("dflt") }

IoOutcomes == { "ok", "open_fails", "write_fails" }

Call(op, path, arg, io, out) ==
    [op |-> op, path |-> path, arg |-> arg, io |-> io, pre |-> file,
     raised |-> out.raised, ret |-> out.ret]

NoCall == [op |-> "none", path |-> <<>>, arg |-> Null, io |-> "ok", pre |-> Missing,
           raised |-> FALSE, ret |-> Null]

RaceIdle ==
    /\ rpc = <<>> /\ rarg = <<>> /\ rdata = <<>> /\ rlog = <<>>

ExtractIdle ==
    /\ doc = <<>> /\ artifacts = <<>> /\ xpc = "off" /\ pos = 0 /\ counter = 0
    /\ pend = <<>> /\ hist = <<>> /\ runlog = <<>>

ChunkIdle ==
    /\ ctext = <<>> /\ cargs = <<>> /\ cpc = "off" /\ clocal = <<>>
    /\ chunkfiles = <<>> /\ chist = <<>>

PureIdle ==
    /\ xml = <<>> /\ content = <<>> /\ sinput = <<>> /\ sparts = <<>>

TransIdle ==
    /\ transcripts = <<>> /\ skip_existing = FALSE /\ failed_files = {}
    /\ stats = <<>> /\ tpc = "off" /\ file_path = 0

StoreInit ==
    /\ file \in StoreInitFiles
    /\ built = FALSE
    /\ nops = 0
    /\ last = NoCall
    /\ RaceIdle /\ ExtractIdle /\ ChunkIdle /\ PureIdle /\ TransIdle

\* ParseResultCollector.__init__
Construct ==
    /\ ~built
    /\ built' = TRUE
    /\ file' = EnsureFileExists(file)
    /\ last' = Call("construct", <<>>, Null, "ok", [raised |-> FALSE, ret |-> Null])
    /\ UNCHANGED <<nops, raceVars, extractVars, chunkVars, pureVars, transVars>>

OpGet ==
    /\ built /\ nops < MaxOps
    /\ \E path \in StorePaths, default \in StoreDefaults :
          LET out == Get(file, path, default)
          IN  /\ file' = out.file
              /\ last' = Call("get", path, default, "ok", out)
    /\ nops' = nops + 1
    /\ UNCHANGED <<built, raceVars, extractVars, chunkVars, pureVars, transVars>>

OpSet ==
    /\ built /\ nops < MaxOps
    /\ \E path \in StorePaths, value \in StoreValues, io \in IoOutcomes :
          LET out == Set(file, path, value, io)
          IN  /\ file' = out.file
              /\ last' = Call("set", path, value, io, out)
    /\ nops' = nops + 1
    /\ UNCHANGED <<built, raceVars, extractVars, chunkVars, pureVars, transVars>>

OpAdd ==
    /\ built /\ nops < MaxOps
    /\ \E path \in StorePaths, value \in StoreRecords, io \in IoOutcomes :
          LET out == Add(file, path, value, io)
          IN  /\ file' = out.file
              /\ last' = Call("add", path, value, io, out)
    /\ nops' = nops + 1
    /\ UNCHANGED <<built, raceVars, extractVars, chunkVars, pureVars, transVars>>

OpDelete ==
    /\ built /\ nops < MaxOps
    /\ \E path \in StorePaths, io \in IoOutcomes :
          LET out == Delete(file, path, io)
          IN  /\ file' = out.file
              /\ last' = Call("delete", path, Null, io, out)
    /\ nops' = nops + 1
    /\ UNCHANGED <<built, raceVars, extractVars, chunkVars, pureVars, transVars>>

\* something outside the program removes or damages the backing file
ExternalDamage ==
    /\ built /\ nops < MaxOps /\ last.op # "damage"
    /\ file' \in {Missing, Corrupt, Unreadable}
    /\ last' = Call("damage", <<>>, Null, "ok", [raised |-> FALSE, ret |-> Null])
    /\ UNCHANGED <<built, nops, raceVars, extractVars, chunkVars, pureVars, transVars>>

StoreNext == Construct \/ OpGet \/ OpSet \/ OpAdd \/ OpDelete \/ ExternalDamage

SpecStore == StoreInit /\ [][StoreNext]_vars

(***************************************************************************)
(* Properties of single store calls (SpecStore)                            *)
(***************************************************************************)
\* what the store holds, as a load sees it
View(f) == LoadFromFile(f).data

Readable(f) == f.k # "unreadable"

\* the value after the first i segments of path, and whether they are all present
RECURSIVE Reach(_, _, _)
Reach(d, path, i) == IF i = 0 THEN d ELSE Reach(d, path, i - 1).m[path[i]]

RECURSIVE PresentUpTo(_, _, _)
PresentUpTo(d, path, i) ==
    \/ i = 0
    \/ PresentUpTo(d, path, i - 1) /\ HasKey(Reach(d, path, i - 1), path[i])

Present(d, path) == PresentUpTo(d, path, Len(path))

IsPrefix(p, q) == Len(p) <= Len(q) /\ SubSeq(q, 1, Len(p)) = p

Absent == Str("<absent>")

\* C8: on a readable store, get(path, default) does not raise, returns the value its
\* segments lead to when all are present and default otherwise (a segment absent, or
\* a value on the way that is not a mapping), and leaves the persisted store as it
\* was: an existing backing file is untouched and what a load sees is the same.
C8_GetNavigates ==
    (last.op = "get" /\ Readable(last.pre)) =>
        LET d == View(last.pre)
        IN  /\ ~last.raised
            /\ Present(d, last.path) => last.ret = Reach(d, last.path, Len(last.path))
            /\ ~Present(d, last.path) => last.ret = last.arg
            /\ last.pre.k # "missing" => file = last.pre
            /\ View(file) = d

\* a get whose path runs through a value that is not a mapping returned the default
C8_Witness ==
    /\ last.op = "get" /\ last.pre.k = "json"
    /\ last.path = <<"source_file", "x">>
    /\ HasKey(View(last.pre), "source_file")
    /\ last.ret = Str("dflt")

JsonExact(v) == Serialisable(v) /\ ToJson(v) = v

SetApplies ==
    /\ last.op = "set" /\ last.path # <<>> /\ last.io = "ok"
    /\ Readable(last.pre) /\ JsonExact(last.arg)

SetPostcondition ==
    /\ ~last.raised
    /\ Get(file, last.path, Absent).ret = last.arg
    /\ \A i \in 0..(Len(last.path) - 1) : IsDict(Reach(View(file), last.path, i))
    /\ \A q \in StorePaths :
            (~IsPrefix(q, last.path) /\ ~IsPrefix(last.path, q)) =>
                Get(file, q, Absent).ret = Get(last.pre, q, Absent).ret

\* every value already stored at a proper prefix of the path is a mapping
IntermediatesAreMappings(d, path) ==
    \A i \in 0..(Len(path) - 1) : PresentUpTo(d, path, i) => IsDict(Reach(d, path, i))

\* C9 as stated: set succeeds on every store state and every non-empty path, also
\* when an intermediate value is not a mapping; then get(path) is the value and the
\* unrelated paths read as before.
C9_SetAlwaysSucceeds == SetApplies => SetPostcondition

\* C9 amended: when every existing intermediate value is a mapping, set succeeds,
\* creates a mapping for each absent intermediate segment, get(path) then returns
\* the value and every path that is neither a prefix nor an extension reads as
\* before; when an existing intermediate value is not a mapping, set raises and the
\* persisted store is unchanged.
C9_SetCreatesAbsent ==
    SetApplies =>
        IF IntermediatesAreMappings(View(last.pre), last.path)
        THEN SetPostcondition
        ELSE last.raised /\ View(file) = View(last.pre)

\* a set that had to create two intermediate mappings
C9_Witness ==
    /\ SetApplies /\ ~last.raised
    /\ last.path = <<"chunks", "section_0", "chunks">>
    /\ ~HasKey(View(last.pre).m["chunks"], "section_0")
    /\ Get(file, last.path, Absent).ret = last.arg

\* the container an add works on, as it was before the call
ContainerBefore ==
    LET d == View(last.pre)
    IN  IF Present(d, last.path) THEN Reach(d, last.path, Len(last.path)) ELSE Dict(EmptyMap)

ContainerAfter == Reach(View(file), last.path, Len(last.path))

IntKeys(c) == {IntOfKey(k) : k \in {x \in DOMAIN c.m : ParsesInt(x)}}

AddApplies == last.op = "add" /\ ~last.raised /\ last.io = "ok"

AddStores ==
    /\ HasKey(ContainerAfter, last.ret.s)
    /\ LET e == ContainerAfter.m[last.ret.s]
       IN  \A k \in DOMAIN last.arg.m : HasKey(e, k) /\ e.m[k] = last.arg.m[k]
    /\ "idx" \notin DOMAIN last.arg.m =>
            \A k \in DOMAIN ContainerBefore.m :
                HasKey(ContainerAfter, k) /\ ContainerAfter.m[k] = ContainerBefore.m[k]
    /\ "idx" \in DOMAIN last.arg.m => last.ret.s = PyStr(last.arg.m["idx"])

\* C10 as stated: without an idx field the key is the decimal string of the largest
\* integer-parseable key plus one, and "0" only when there is no such key.
C10_LargestKeyPlusOne ==
    AddApplies =>
        /\ AddStores
        /\ "idx" \notin DOMAIN last.arg.m =>
                last.ret.s = IF IntKeys(ContainerBefore) = {} THEN "0"
                             ELSE ToString(SetMax(IntKeys(ContainerBefore)) + 1)

\* C10 amended: without an idx field the key is the decimal string of the least
\* n >= 0 above every integer-parseable key (so "0" also when all such keys are
\* negative); the record is stored under it and the entries already in the container
\* are unchanged; with an idx field the record is stored under str(idx).
C10_NextKey ==
    AddApplies =>
        /\ AddStores
        /\ "idx" \notin DOMAIN last.arg.m =>
                \E n \in 0..9 :
                    /\ last.ret.s = ToString(n)
                    /\ \A j \in IntKeys(ContainerBefore) : j < n
                    /\ n = 0 \/ (n - 1) \in IntKeys(ContainerBefore)

\* an add without idx into a container holding the keys "0", "01" and "x"
C10_Witness ==
    /\ AddApplies /\ "idx" \notin DOMAIN last.arg.m
    /\ last.path = <<"sections">>
    /\ {"0", "01", "x"} \subseteq DOMAIN ContainerBefore.m
    /\ last.ret = Str("2")

\* C5: a set, add or delete either replaces the persisted structure by the complete
\* new one or fails leaving the backing file exactly as it was (at most created
\* empty by the load).
C5_WriteIsAllOrNothing ==
    (last.op \in {"set", "add", "delete"}) =>
        IF last.raised THEN file \in {last.pre, EnsureFileExists(last.pre)}
        ELSE file.k = "json"

\* C7: construction, get, set and add on a missing, unreadable or invalid backing
\* file do not raise, behave as on the empty structure, and leave a valid persisted
\* structure with both branches.
C7_SelfHeals ==
    ( /\ last.op \in {"construct", "get", "set", "add"}
      /\ last.pre.k \in {"missing", "unreadable", "corrupt"}
      /\ last.io = "ok"
      /\ last.op \in {"set", "add"} => (last.path # <<>> /\ Serialisable(last.arg)) )
    =>  /\ ~last.raised
        /\ last.op = "get" => last.ret = Get(JsonFile(InitialData), last.path, last.arg).ret
        /\ file.k = "json"
        /\ HasKey(file.v, "sections") /\ HasKey(file.v, "chunks")

(***************************************************************************)
(* Two processes calling set on one store file.  set is load, modify,      *)
(* save, with no lock between the load and the save.                       *)
(***************************************************************************)
Procs == {1, 2}

RacePaths ==
    { <<"sections", "0">>, <<"sections", "1">>, <<"source_file">>,
      <<"chunks", "section_0", "section_file">> }

RaceValues == { Str("v"), SectionRec(0, "A") }

RaceInitFiles ==
    { JsonFile(InitialData),
      JsonFile(Dict([k \in {"sections", "chunks"} |->
            IF k = "sections" THEN Dict([i \in {"5"} |-> SectionRec(5, "Z")])
            ELSE Dict(EmptyMap)])) }

StoreIdle == built = TRUE /\ nops = 0 /\ last = NoCall

RaceInit ==
    /\ file \in RaceInitFiles
    /\ StoreIdle /\ ExtractIdle /\ ChunkIdle /\ PureIdle /\ TransIdle
    /\ rpc = [p \in Procs |-> "idle"]
    /\ rarg \in [Procs -> [path : RacePaths, value : RaceValues]]
    /\ rdata = [p \in Procs |-> Null]
    /\ rlog = <<>>

\* set, line 191: data = self._load_from_file()
RaceLoad(p) ==
    /\ rpc[p] = "idle"
    /\ LET ld == LoadFromFile(file)
       IN  /\ file' = ld.file
           /\ rdata' = [rdata EXCEPT ![p] = ld.data]
    /\ rpc' = [rpc EXCEPT ![p] = "loaded"]
    /\ rlog' = Append(rlog, <<"load", p>>)
    /\ UNCHANGED <<built, nops, last, rarg, extractVars, chunkVars, pureVars, transVars>>

\* a set that reads the file again when it saves
SaveInputReloaded(p) == LoadFromFile(file).data

\* the structure set modifies and writes back is the one it loaded
SaveInput(p) == rdata[p]

\* set, lines 196-207: modify the loaded structure and write the whole of it
RaceSave(p) ==
    /\ rpc[p] = "loaded"
    /\ LET r == SetIn(SaveInput(p), rarg[p].path, rarg[p].value)
           sv == SaveToFile(file, r.v, "ok")
       IN  /\ file' = IF r.ok THEN sv.file ELSE file
           /\ rpc' = [rpc EXCEPT ![p] = IF r.ok /\ ~sv.raised THEN "done" ELSE "raised"]
    /\ rlog' = Append(rlog, <<"save", p>>)
    /\ UNCHANGED <<built, nops, last, rarg, rdata, extractVars, chunkVars, pureVars, transVars>>

RaceNext == \E p \in Procs : RaceLoad(p) \/ RaceSave(p)

SpecRace == RaceInit /\ [][RaceNext]_vars

When(ev) == CHOOSE i \in 1..Len(rlog) : rlog[i] = ev

Unrelated(p, q) == ~IsPrefix(p, q) /\ ~IsPrefix(q, p)

\* C6: when two unlocked set calls on unrelated paths both return and the one that
\* saved last had loaded before the other saved, the persisted store lacks the
\* value the other one wrote.
C6_LostUpdate ==
    \A p \in Procs, q \in Procs :
        ( /\ p # q /\ rpc[p] = "done" /\ rpc[q] = "done"
          /\ Unrelated(rarg[p].path, rarg[q].path)
          /\ When(<<"load", p>>) < When(<<"save", q>>)
          /\ When(<<"save", q>>) < When(<<"save", p>>) )
        => Get(file, rarg[q].path, Absent).ret # rarg[q].value

\* both set calls returned and the value one of them wrote is not in the store
C6_Witness ==
    /\ \A p \in Procs : rpc[p] = "done"
    /\ Unrelated(rarg[1].path, rarg[2].path)
    /\ \E q \in Procs : Get(file, rarg[q].path, Absent).ret # rarg[q].value

(***************************************************************************)
(* The document tree.  A section node has an optional title element, its   *)
(* own content (what extract_section_content returns, given as the lengths *)
(* of its paragraphs, i.e. of content.split("\n\n")) and child sections.   *)
(***************************************************************************)
NoTitle == [has |-> FALSE, text |-> ""]
Title(s) == [has |-> TRUE, text |-> s]
Node(title, paras, kids) == [title |-> title, paras |-> paras, kids |-> kids]

RECURSIVE SumSeq(_)
SumSeq(q) == IF q = <<>> THEN 0 ELSE Head(q) + SumSeq(Tail(q))

\* len(content) for content = "\n\n".join(paragraphs)
ContentLen(paras) == SumSeq(paras) + 2 * (Len(paras) - 1)

\* section_elem.find('title') searches the whole subtree in document order, so a
\* section without a title element of its own gets the first title below it
RECURSIVE FindTitle(_)
RECURSIVE FindTitleIn(_)
FindTitle(node) == IF node.title.has THEN node.title ELSE FindTitleIn(node.kids)
FindTitleIn(kids) ==
    IF kids = <<>> THEN NoTitle
    ELSE LET t == FindTitle(Head(kids))
         IN  IF t.has THEN t ELSE FindTitleIn(Tail(kids))

GetSectionTitle(node) == FindTitle(node).text

FullTitle(parent_title, title) ==
    IF title # "" THEN (IF parent_title # "" THEN parent_title \o " - " \o title ELSE title)
    ELSE parent_title

\* sanitize_filename on the titles of the model: lower case, " - " becomes "_"
SanitizeWord(title) ==
    CASE title = "A" -> "a"
      [] title = "B" -> "b"
      [] OTHER -> ""

SanitizeJoin(parent_san, san) ==
    IF san # "" THEN (IF parent_san # "" THEN parent_san \o "_" \o san ELSE san)
    ELSE parent_san

\* the candidate leaves in the order extract_section_recursive meets them:
\* nodes without child sections whose content is not empty
RECURSIVE Leaves(_, _, _)
RECURSIVE LeavesOfAll(_, _, _)
Leaves(node, parent_title, parent_san) ==
    LET title == GetSectionTitle(node)
        full_title == FullTitle(parent_title, title)
        san == SanitizeJoin(parent_san, SanitizeWord(title))
    IN  IF node.kids # <<>> THEN LeavesOfAll(node.kids, full_title, san)
        ELSE IF ContentLen(node.paras) > 0
             THEN <<[title |-> full_title, san |-> san, paras |-> node.paras]>>
             ELSE <<>>
LeavesOfAll(nodes, parent_title, parent_san) ==
    IF nodes = <<>> THEN <<>>
    ELSE Leaves(Head(nodes), parent_title, parent_san)
            \o LeavesOfAll(Tail(nodes), parent_title, parent_san)

(***************************************************************************)
(* split_long_section_by_paragraphs, on paragraph lengths                  *)
(***************************************************************************)
\* the loop with the paragraph that closes a part left out of the next part
RECURSIVE SplitLoopDropping(_, _, _, _, _, _)
SplitLoopDropping(paras, i, target_size, current_part, current_size, parts) ==
    IF i > Len(paras)
    THEN IF current_part # <<>> THEN Append(parts, current_part) ELSE parts
    ELSE LET paragraph_size == paras[i] + 2
         IN  IF current_size + paragraph_size > target_size /\ current_part # <<>>
             THEN SplitLoopDropping(paras, i + 1, target_size, <<>>, 0,
                                    Append(parts, current_part))
             ELSE SplitLoopDropping(paras, i + 1, target_size,
                                    Append(current_part, paras[i]),
                                    current_size + paragraph_size, parts)

RECURSIVE SplitLoop(_, _, _, _, _, _)
SplitLoop(paras, i, target_size, current_part, current_size, parts) ==
    IF i > Len(paras)
    THEN IF current_part # <<>> THEN Append(parts, current_part) ELSE parts
    ELSE LET paragraph_size == paras[i] + 2
         IN  IF current_size + paragraph_size > target_size /\ current_part # <<>>
             THEN SplitLoop(paras, i + 1, target_size, <<paras[i]>>, paras[i],
                            Append(parts, current_part))
             ELSE SplitLoop(paras, i + 1, target_size, Append(current_part, paras[i]),
                            current_size + paragraph_size, parts)

\* the code's label is the Russian word for "part"
PartLabel == " - chast "
PartSan == "_chast_"

\* the split with part_num starting at 0
SplitNumberedFromZero(leaf, max_size) ==
    IF ContentLen(leaf.paras) <= max_size THEN <<leaf>>
    ELSE LET total_chars == ContentLen(leaf.paras)
             num_parts == (total_chars + max_size - 1) \div max_size
             target_size == total_chars \div num_parts
             groups == SplitLoop(leaf.paras, 1, target_size, <<>>, 0, <<>>)
         IN  [n \in 1..Len(groups) |->
                [title |-> leaf.title \o PartLabel \o ToString(n - 1),
                 san |-> leaf.san \o PartSan \o ToString(n - 1),
                 paras |-> groups[n]]]

SplitLongSectionByParagraphs(leaf, max_size) ==
    IF ContentLen(leaf.paras) <= max_size THEN <<leaf>>
    ELSE LET total_chars == ContentLen(leaf.paras)
             num_parts == (total_chars + max_size - 1) \div max_size
             target_size == total_chars \div num_parts
             groups == SplitLoop(leaf.paras, 1, target_size, <<>>, 0, <<>>)
         IN  [n \in 1..Len(groups) |->
                [title |-> leaf.title \o PartLabel \o ToString(n),
                 san |-> leaf.san \o PartSan \o ToString(n),
                 paras |-> groups[n]]]

\* the sections a run tries to persist, in order: each leaf, or its parts
RECURSIVE UnitsOf(_)
UnitsOf(leaves) ==
    IF leaves = <<>> THEN <<>>
    ELSE SplitLongSectionByParagraphs(Head(leaves), MaxSectionSize) \o UnitsOf(Tail(leaves))

\* the sections of a run with the nodes that have child sections taken as
\* candidates too
UnitsWithInner(body) ==
    LET HasKids(node) == node.kids # <<>>
        inner == SelectSeq(body, HasKids)
    IN  UnitsOf([i \in 1..Len(inner) |->
                    [title |-> GetSectionTitle(inner[i]),
                     san |-> SanitizeWord(GetSectionTitle(inner[i])),
                     paras |-> inner[i].paras]]
                \o LeavesOfAll(body, "", ""))

\* extract_sections_content: every section child of body
Units(body) == UnitsOf(LeavesOfAll(body, "", ""))

(***************************************************************************)
(* Extraction runs: parse_fb2_content, extract_section_recursive and       *)
(* add_section, one candidate at a time.  A run can be terminated between  *)
(* any two steps; the store file and the section files stay as they are.   *)
(***************************************************************************)
TitleChoices == { NoTitle, Title("A"), Title("B") }

Short == <<3>>
Long == <<60000, 60000>>
Blank == <<0>>

LeafNodes ==
    { Node(t, Short, <<>>) : t \in TitleChoices }
        \cup { Node(Title("A"), Blank, <<>>), Node(Title("A"), Long, <<>>) }

InnerNodes ==
    { Node(t, Short, kids) :
        t \in TitleChoices, kids \in UNION { [1..n -> LeafNodes] : n \in 1..MaxKids } }

\* the body holds one top-level section
Documents == { <<root>> : root \in LeafNodes \cup InnerNodes }

ExtractInitFiles ==
    { Missing, Corrupt,
      JsonFile(InitialData),
      JsonFile(Dict([k \in {"sections", "chunks"} |->
            IF k = "sections"
            THEN Dict([i \in {"0", "3"} |-> SectionRec(IntOfKey(i), IF i = "0" THEN "A" ELSE "Z")])
            ELSE Dict(EmptyMap)])) }

\* get_all_sections
GetAllSections(f) == Get(f, <<"sections">>, Dict(EmptyMap)).ret

CheckSectionExistsByTitle(f, title) ==
    /\ title # ""
    /\ \E k \in DOMAIN GetAllSections(f).m :
            LET section_meta == GetAllSections(f).m[k]
            IN  /\ IsDict(section_meta)
                /\ HasKey(section_meta, "title")
                /\ section_meta.m["title"] = Str(title)

\* Python truth of a stored value ("if existing_section:")
Truthy(v) ==
    CASE v.t = "null" -> FALSE
      [] v.t = "dict" -> DOMAIN v.m # {}
      [] v.t = "str" -> v.s # ""
      [] v.t = "int" -> v.n # 0
      [] v.t = "bool" -> v.b
      [] OTHER -> v.l # <<>>

\* generate_unique_filename: f"{idx:04d}_{sanitized}" or f"{idx:04d}"
UniqueFilename(san, idx) == <<idx, san>>

\* section_metadata of add_section
SectionMetadata(idx, unit) ==
    Dict([k \in {"idx", "title", "section_file", "summary_file", "processed_at"} |->
            CASE k = "idx" -> Num(idx)
              [] k = "title" -> Str(unit.title)
              [] k = "section_file" ->
                    Str("sections/" \o ToString(idx) \o "_" \o unit.san \o ".txt")
              [] k = "summary_file" -> Null
              [] OTHER -> Str("now")])

Count(q, what) == Cardinality({i \in 1..Len(q) : q[i].end = what})

\* section_counter starting at the largest index itself
StartCounterAtMax(max_metadata_idx) == max_metadata_idx

\* section_counter = [max_metadata_idx + 1]
StartCounter(max_metadata_idx) == max_metadata_idx + 1

NoRun == [k0 |-> -1, before |-> EmptyMap, persisted |-> <<>>, skipped |-> <<>>]

ExtractInit ==
    /\ file \in ExtractInitFiles
    /\ StoreIdle /\ RaceIdle /\ ChunkIdle /\ PureIdle /\ TransIdle
    /\ doc \in Documents
    /\ artifacts = EmptyMap
    /\ xpc = "idle" /\ pos = 0 /\ counter = 0 /\ pend = <<>>
    /\ hist = <<>> /\ runlog = NoRun

\* parse_fb2_content up to the call of extract_sections_content
RunStart ==
    /\ xpc = "idle" /\ Count(hist, "done") < MaxRuns
    /\ \E with_source \in BOOLEAN :
          LET f1 == EnsureFileExists(file)
              f2 == IF with_source THEN Set(f1, <<"source_file">>, Str("book.fb2"), "ok").file
                    ELSE f1
              existing_sections == GetAllSections(f2)
              max_metadata_idx == MaxIntKey(existing_sections)
          IN  /\ file' = Get(f2, <<"sections">>, Dict(EmptyMap)).file
              /\ counter' = StartCounter(max_metadata_idx)
              /\ runlog' = [k0 |-> max_metadata_idx, before |-> existing_sections.m,
                            persisted |-> <<>>, skipped |-> <<>>]
    /\ xpc' = "scan" /\ pos' = 1 /\ pend' = <<>>
    /\ UNCHANGED <<built, nops, last, raceVars, chunkVars, pureVars, transVars,
                   doc, artifacts, hist>>

Skip(unit, why) ==
    /\ pos' = pos + 1
    /\ runlog' = [runlog EXCEPT !.skipped = Append(@, [title |-> unit.title, why |-> why])]
    /\ UNCHANGED <<artifacts, xpc, pend>>

\* one candidate, from the title check up to the section file written by add_section
ExtractCheck ==
    /\ xpc = "scan" /\ pos <= Len(Units(doc))
    /\ LET unit == Units(doc)[pos]
           idx == counter
           name == UniqueFilename(unit.san, idx)
           existing_section == Get(file, <<"sections", ToString(idx)>>, Null)
       IN  IF CheckSectionExistsByTitle(file, unit.title)
           THEN /\ Skip(unit, "title") /\ UNCHANGED <<counter, file>>
           ELSE /\ counter' = counter + 1
                /\ IF name \in DOMAIN artifacts
                   THEN /\ Skip(unit, "file") /\ UNCHANGED file
                   ELSE /\ file' = existing_section.file
                        /\ IF Truthy(existing_section.ret)
                           THEN Skip(unit, "index")
                           ELSE /\ artifacts' = Put(artifacts, name,
                                        [title |-> unit.title, paras |-> unit.paras])
                                /\ pend' = [idx |-> idx, unit |-> unit]
                                /\ xpc' = "record"
                                /\ UNCHANGED <<pos, runlog>>
    /\ UNCHANGED <<built, nops, last, raceVars, chunkVars, pureVars, transVars, doc, hist>>

\* add_section, line 463: self.set(f'sections.{idx}', section_metadata)
ExtractRecord ==
    /\ xpc = "record"
    /\ file' = Set(file, <<"sections", ToString(pend.idx)>>,
                    SectionMetadata(pend.idx, pend.unit), "ok").file
    /\ runlog' = [runlog EXCEPT !.persisted = Append(@, pend.idx)]
    /\ xpc' = "scan" /\ pos' = pos + 1 /\ pend' = <<>>
    /\ UNCHANGED <<built, nops, last, raceVars, chunkVars, pureVars, transVars,
                   doc, artifacts, counter, hist>>

SectionCount == Cardinality(DOMAIN GetAllSections(file).m)

\* parse_fb2_content returns
RunEnd ==
    /\ xpc = "scan" /\ pos > Len(Units(doc))
    /\ xpc' = "idle"
    /\ hist' = Append(hist, [end |-> "done", count |-> SectionCount])
    /\ UNCHANGED <<storeVars, raceVars, chunkVars, pureVars, transVars,
                   doc, artifacts, pos, counter, pend, runlog>>

\* the process is terminated
Crash ==
    /\ xpc \in {"scan", "record"} /\ Count(hist, "crash") < MaxCrashes
    /\ xpc' = "idle"
    /\ hist' = Append(hist, [end |-> "crash", count |-> SectionCount])
    /\ UNCHANGED <<storeVars, raceVars, chunkVars, pureVars, transVars,
                   doc, artifacts, pos, counter, pend, runlog>>

ExtractNext == RunStart \/ ExtractCheck \/ ExtractRecord \/ RunEnd \/ Crash

SpecExtract == ExtractInit /\ [][ExtractNext]_vars

(***************************************************************************)
(* Properties of extraction runs (SpecExtract)                             *)
(***************************************************************************)
RecordsTitled(title) ==
    {k \in DOMAIN GetAllSections(file).m :
        LET r == GetAllSections(file).m[k]
        IN  HasKey(r, "title") /\ r.m["title"] = Str(title)}

\* C1: two completed runs in a row over the same document, store and output
\* directory leave as many Section records as the first of them did.
C1_SecondRunAddsNothing ==
    (Len(hist) = 2 /\ hist[1].end = "done" /\ hist[2].end = "done") =>
        hist[2].count = hist[1].count

\* C3: every section a run has persisted sits in the store under an index above
\* the largest integer key k the store had when the run started, no two of them
\* share an index, and every record the store had then is still there unchanged.
C3_FreshIndices ==
    LET sections == GetAllSections(file).m
        persisted == runlog.persisted
    IN  /\ \A i \in 1..Len(persisted) :
                /\ persisted[i] > runlog.k0
                /\ ToString(persisted[i]) \in DOMAIN sections
                /\ ToString(persisted[i]) \notin DOMAIN runlog.before
        /\ \A i, j \in 1..Len(persisted) : i # j => persisted[i] # persisted[j]
        /\ \A key \in DOMAIN runlog.before :
                key \in DOMAIN sections /\ sections[key] = runlog.before[key]

\* a run on a store whose largest key is 3 has persisted two sections
C3_Witness ==
    /\ runlog.k0 = 3 /\ Len(runlog.persisted) = 2
    /\ \A i \in 1..2 : ToString(runlog.persisted[i]) \in DOMAIN GetAllSections(file).m

\* the leaves that are persisted whole (not split into parts)
WholeLeaves ==
    LET leaves == LeavesOfAll(doc, "", "")
    IN  {leaves[i] : i \in {j \in 1..Len(leaves) : ContentLen(leaves[j].paras) <= MaxSectionSize}}

TitlesTellLeavesApart ==
    LET leaves == LeavesOfAll(doc, "", "")
    IN  /\ \A i \in 1..Len(leaves) : leaves[i].title # ""
        /\ \A i, j \in 1..Len(leaves) : i # j => leaves[i].title # leaves[j].title

\* C4: after a run that was terminated and a second run that completed, the
\* store holds exactly one Section record for every leaf with content (stated for
\* documents whose leaves have distinct, non-empty titles).
C4_RerunCompletesTheStore ==
    ( /\ Len(hist) = 2 /\ hist[1].end = "crash" /\ hist[2].end = "done"
      /\ TitlesTellLeavesApart )
    => \A leaf \in WholeLeaves : Cardinality(RecordsTitled(leaf.title)) = 1

(***************************************************************************)
(* md_to_chunks.py: split_markdown_into_chunks.                            *)
(* A text is given by its sentences, as nltk.sent_tokenize finds them: a   *)
(* sentence is its words, one space between two of them, and the           *)
(* whitespace that follows it in the text.                                 *)
(***************************************************************************)
MaxSentences == 3
MaxChunkRuns == 2

Sentence(words, gap) == [words |-> words, gap |-> gap]

\* re.sub(r'\n{3,}', '\n\n', text) on the whitespace after a sentence
CollapseNewlines(gap) == IF gap = "\n\n\n" THEN "\n\n" ELSE gap

\* text = re.sub(...); text = text.strip()
NormaliseText(text) ==
    [i \in 1..Len(text) |->
        Sentence(text[i].words,
                 IF i = Len(text) THEN "" ELSE CollapseNewlines(text[i].gap))]

\* nltk.sent_tokenize: the sentences without the whitespace between them
SentTokenize(text) == [i \in 1..Len(text) |-> text[i].words]

\* len of words joined by single spaces
TextLen(words) ==
    IF words = <<>> THEN 0
    ELSE SumSeq([i \in 1..Len(words) |-> Len(words[i])]) + Len(words) - 1

\* " ".join(current_chunk), as the words of the joined string
RECURSIVE Join(_)
Join(items) == IF items = <<>> THEN <<>> ELSE Head(items) \o Join(Tail(items))

Chunk(text, start, end) == [text |-> text, start |-> start, end |-> end]

\* the overlap loop: sentences taken from the end of current_chunk while
\* overlap_len < overlap_chars; the result is overlap_text, as its words
RECURSIVE OverlapText(_, _, _, _, _)
OverlapText(current_chunk, j, overlap_text, overlap_len, overlap_chars) ==
    IF j >= 1 /\ overlap_len < overlap_chars
    THEN OverlapText(current_chunk, j - 1, current_chunk[j] \o overlap_text,
                     overlap_len + TextLen(current_chunk[j]) + 1, overlap_chars)
    ELSE overlap_text

\* the body of "if current_length + sentence_len + 1 > max_chunk_size and
\* current_chunk": the chunk is closed and the next one starts with the overlap,
\* which overlap_text.split(" ") cuts into single words
CloseChunk(st, overlap_chars) ==
    LET chunk_text == Join(st.current_chunk)
        end_pos == st.start_pos_global + TextLen(chunk_text)
        overlap_text == OverlapText(st.current_chunk, Len(st.current_chunk),
                                    <<>>, 0, overlap_chars)
        current_length == TextLen(overlap_text)
    IN  [chunks |-> Append(st.chunks, Chunk(chunk_text, st.start_pos_global, end_pos)),
         current_chunk |-> [k \in 1..Len(overlap_text) |-> <<overlap_text[k]>>],
         current_length |-> current_length,
         start_pos_global |-> end_pos - current_length]

\* the while loop over the sentences
RECURSIVE ChunkLoop(_, _, _, _)
ChunkLoop(sentences, i, st, sizes) ==
    IF i > Len(sentences) THEN st
    ELSE LET sentence == sentences[i]
             sentence_len == TextLen(sentence)
             s1 == IF /\ st.current_length + sentence_len + 1 > sizes.max_chunk_size
                      /\ st.current_chunk # <<>>
                   THEN CloseChunk(st, sizes.overlap_chars)
                   ELSE st
         IN  ChunkLoop(sentences, i + 1,
                       [s1 EXCEPT !.current_chunk = Append(@, sentence),
                                  !.current_length = @ + sentence_len + 1],
                       sizes)

\* the loop and the last chunk after it
RawChunks(sentences, sizes) ==
    LET st == ChunkLoop(sentences, 1,
                        [chunks |-> <<>>, current_chunk |-> <<>>,
                         current_length |-> 0, start_pos_global |-> 0], sizes)
        chunk_text == Join(st.current_chunk)
    IN  IF st.current_chunk # <<>>
        THEN Append(st.chunks, Chunk(chunk_text, st.start_pos_global,
                                     st.start_pos_global + TextLen(chunk_text)))
        ELSE st.chunks

\* the chunks of the loop returned as they are
KeepAllChunks(chunks, filtered_chunks, min_chunk_size) == filtered_chunks \o chunks

\* a chunk shorter than min_chunk_size is joined to the chunk before it
RECURSIVE FilterChunks(_, _, _)
FilterChunks(chunks, filtered_chunks, min_chunk_size) ==
    IF chunks = <<>> THEN filtered_chunks
    ELSE LET c == Head(chunks)
             n == Len(filtered_chunks)
         IN  FilterChunks(Tail(chunks),
                IF TextLen(c.text) >= min_chunk_size \/ filtered_chunks = <<>>
                THEN Append(filtered_chunks, c)
                ELSE [filtered_chunks EXCEPT
                        ![n] = Chunk(@.text \o c.text, @.start, c.end)],
                min_chunk_size)

\* the chunks the call returns
SplitIntoChunks(text, sizes) ==
    FilterChunks(RawChunks(SentTokenize(NormaliseText(text)), sizes), <<>>,
                 sizes.min_chunk_size)

(***************************************************************************)
(* split_markdown_into_chunks: the chunk records and files of a call       *)
(***************************************************************************)
\* get_section_chunks
GetSectionChunks(f, section_idx) ==
    Get(f, <<"chunks", "section_" \o ToString(section_idx), "chunks">>, Dict(EmptyMap))

\* max_idx left at its initial value
MaxIdxUnset(existing_chunks) == -1

\* max_idx: the largest key of existing_chunks that int() accepts, from -1
MaxIdx(existing_chunks) ==
    SetMax({-1} \cup {IntOfKey(k) : k \in {x \in DOMAIN existing_chunks.m : ParsesInt(x)}})

\* the sections whose section_file is the one of the call and whose key is an
\* integer (the stores of this model hold at most one section per file)
SectionsOfFile(all_sections, section_file) ==
    {k \in DOMAIN all_sections.m :
        /\ IsDict(all_sections.m[k])
        /\ HasKey(all_sections.m[k], "section_file")
        /\ all_sections.m[k].m["section_file"] = section_file
        /\ ParsesInt(k)}

\* the first lines of the call: section_idx as given, or looked up by
\* section_file, and the chunk records the store has for it
ExistingChunks(f, section_idx, section_file) ==
    LET all_sections == GetAllSections(f)
        found == SectionsOfFile(all_sections, section_file)
        idx == IF section_idx # Null THEN section_idx
               ELSE IF Truthy(section_file) /\ found # {}
                    THEN Num(IntOfKey(CHOOSE k \in found : TRUE))
                    ELSE Null
    IN  [section_idx |-> idx,
         existing_chunks |-> IF idx = Null THEN Dict(EmptyMap)
                             ELSE GetSectionChunks(f, idx.n).ret]

\* chunk_filepath: chunks_dir / f"chunk_{next_idx:05d}.txt"
ChunkFilename(next_idx) == "chunk_" \o ToString(next_idx)

\* chunk_meta
ChunkMeta(next_idx, chunk, section_file) ==
    Dict([k \in {"idx", "text_length", "start_pos", "end_pos", "processed_at",
                 "chunk_file"}
                \cup (IF Truthy(section_file) THEN {"section_file"} ELSE {}) |->
            CASE k = "idx" -> Num(next_idx)
              [] k = "text_length" -> Num(TextLen(chunk.text))
              [] k = "start_pos" -> Num(chunk.start)
              [] k = "end_pos" -> Num(chunk.end)
              [] k = "processed_at" -> Str("now")
              [] k = "chunk_file" -> Str("chunks/" \o ChunkFilename(next_idx))
              [] OTHER -> section_file])

\* the chunk records the store holds for a section
StoredChunks(f, section_idx) ==
    IF section_idx = Null THEN EmptyMap
    ELSE LET got == GetSectionChunks(f, section_idx.n).ret
         IN  IF IsDict(got) THEN got.m ELSE EmptyMap

ChunkRec(idx) ==
    Dict([k \in {"idx", "text_length", "start_pos", "end_pos"} |->
            CASE k = "idx" -> Num(idx)
              [] k = "text_length" -> Num(5)
              [] k = "start_pos" -> Num(0)
              [] OTHER -> Num(5)])

SentenceChoices ==
    { Sentence(<<"aa", "b.">>, " "), Sentence(<<"cccc.">>, "\n\n\n"),
      Sentence(<<"d.">>, " ") }

Texts == UNION { [1..n -> SentenceChoices] : n \in 0..MaxSentences }

ChunkSizes ==
    { [min_chunk_size |-> 0, max_chunk_size |-> 8, overlap_chars |-> 0],
      [min_chunk_size |-> 0, max_chunk_size |-> 8, overlap_chars |-> 4],
      [min_chunk_size |-> 4, max_chunk_size |-> 8, overlap_chars |-> 0],
      [min_chunk_size |-> 4, max_chunk_size |-> 8, overlap_chars |-> 3],
      [min_chunk_size |-> 6, max_chunk_size |-> 6, overlap_chars |-> 20] }

ChunkArgs ==
    { [min_chunk_size |-> z.min_chunk_size, max_chunk_size |-> z.max_chunk_size,
       overlap_chars |-> z.overlap_chars, section_idx |-> i, section_file |-> sf] :
        z \in ChunkSizes, i \in {Null, Num(0)}, sf \in {Null, Str("sections/0")} }

ChunkInitFiles ==
    { Missing,
      JsonFile(Dict([k \in {"sections", "chunks"} |->
            IF k = "sections" THEN Dict([i \in {"0"} |-> SectionRec(0, "A")])
            ELSE Dict(EmptyMap)])),
      JsonFile(Dict([k \in {"sections", "chunks"} |->
            IF k = "sections" THEN Dict([i \in {"0"} |-> SectionRec(0, "A")])
            ELSE Dict([s \in {"section_0"} |->
                    Dict([c \in {"section_file", "chunks"} |->
                        IF c = "section_file" THEN Str("sections/0")
                        ELSE Dict([i \in {"0", "2", "x"} |->
                                ChunkRec(IF i = "x" THEN 7 ELSE IntOfKey(i))])])])])) }

NoLocals ==
    [section_idx |-> Null, filtered_chunks |-> <<>>, chunks_metadata |-> EmptyMap,
     next_idx |-> 0, i |-> 1]

ChunkInit ==
    /\ file \in ChunkInitFiles
    /\ StoreIdle /\ RaceIdle /\ ExtractIdle /\ PureIdle /\ TransIdle
    /\ ctext \in Texts
    /\ cargs \in ChunkArgs
    /\ cpc = "idle" /\ clocal = NoLocals
    /\ chunkfiles = EmptyMap /\ chist = <<>>

\* the command line builds the ParseResultCollector; the call reads the stored
\* chunk records, splits the text and sets next_idx = max_idx + 1
ChunkStart ==
    /\ cpc = "idle" /\ Len(chist) < MaxChunkRuns
    /\ LET opened == EnsureFileExists(file)
           had == ExistingChunks(opened, cargs.section_idx, cargs.section_file)
           filtered_chunks == SplitIntoChunks(ctext, cargs)
       IN  /\ file' = opened
           /\ clocal' = [section_idx |-> had.section_idx,
                         filtered_chunks |-> filtered_chunks,
                         chunks_metadata |-> had.existing_chunks.m,
                         next_idx |-> MaxIdx(had.existing_chunks) + 1,
                         i |-> 1]
           /\ cpc' = IF filtered_chunks = <<>> THEN "persist" ELSE "write"
    /\ UNCHANGED <<built, nops, last, raceVars, extractVars, pureVars, transVars,
                   ctext, cargs, chunkfiles, chist>>

\* one round of the loop over filtered_chunks: the chunk file is written and the
\* chunk's record is put into chunks_metadata under str(next_idx)
ChunkWrite ==
    /\ cpc = "write"
    /\ LET chunk == clocal.filtered_chunks[clocal.i]
           next_idx == clocal.next_idx
       IN  /\ chunkfiles' = Put(chunkfiles, ChunkFilename(next_idx), chunk.text)
           /\ clocal' = [clocal EXCEPT
                            !.chunks_metadata =
                                Put(@, ToString(next_idx),
                                    ChunkMeta(next_idx, chunk, cargs.section_file)),
                            !.next_idx = @ + 1,
                            !.i = @ + 1]
           /\ cpc' = IF clocal.i = Len(clocal.filtered_chunks) THEN "persist" ELSE "write"
    /\ UNCHANGED <<storeVars, raceVars, extractVars, pureVars, transVars, ctext, cargs, chist>>

\* "if metadata and section_idx is not None and section_file":
\* set_section_chunks, which is two set calls; then the call returns
ChunkPersist ==
    /\ cpc = "persist"
    /\ LET saves == clocal.section_idx # Null /\ Truthy(cargs.section_file)
           section_key == "section_" \o ToString(clocal.section_idx.n)
           first == Set(file, <<"chunks", section_key, "section_file">>,
                        cargs.section_file, "ok")
           second == Set(first.file, <<"chunks", section_key, "chunks">>,
                         Dict(clocal.chunks_metadata), "ok")
           after == IF ~saves THEN file
                    ELSE IF first.raised THEN first.file ELSE second.file
           raised == saves /\ (first.raised \/ second.raised)
       IN  /\ file' = after
           /\ chist' = Append(chist,
                    [end |-> IF raised THEN "raised" ELSE "done",
                     returned |-> Len(clocal.filtered_chunks),
                     stored |-> StoredChunks(after, clocal.section_idx)])
    /\ cpc' = "idle"
    /\ UNCHANGED <<built, nops, last, raceVars, extractVars, pureVars, transVars,
                   ctext, cargs, clocal, chunkfiles>>

ChunkNext == ChunkStart \/ ChunkWrite \/ ChunkPersist

SpecChunk == ChunkInit /\ [][ChunkNext]_vars

(***************************************************************************)
(* Properties of chunking calls (SpecChunk)                                *)
(***************************************************************************)
\* C2: two calls in a row with the same text, sizes, store, section_idx and
\* section_file leave as many chunk records under chunks.section_<idx>.chunks
\* as the first of them did.
C2_SecondCallAddsNoChunk ==
    (Len(chist) = 2 /\ chist[1].end = "done" /\ chist[2].end = "done") =>
        Cardinality(DOMAIN chist[2].stored) = Cardinality(DOMAIN chist[1].stored)

(***************************************************************************)
(* Extraction runs with Section records deleted between them               *)
(***************************************************************************)
\* metadata.delete('sections.<key>') on a record of the store, between two runs
DeleteSection ==
    /\ xpc = "idle" /\ nops < MaxOps
    /\ \E key \in DOMAIN GetAllSections(file).m :
          LET path == <<"sections", key>>
              out == Delete(file, path, "ok")
          IN  /\ file' = out.file
              /\ last' = Call("delete", path, Null, "ok", out)
    /\ nops' = nops + 1
    /\ UNCHANGED <<built, raceVars, extractVars, chunkVars, pureVars, transVars>>

DeleteNext == ExtractNext \/ DeleteSection

SpecDelete == ExtractInit /\ [][DeleteNext]_vars

\* the sections add_section was ever called for with this index: each call wrote
\* its section file, and section files are never removed
AssignedTo(idx) == {artifacts[name] : name \in {n \in DOMAIN artifacts : n[1] = idx}}

\* C11: over runs that all completed, with records deleted between them, no index
\* is given to two different sections.
C11_IndexNeverReassigned ==
    (Count(hist, "crash") = 0) =>
        \A name \in DOMAIN artifacts : Cardinality(AssignedTo(name[1])) = 1

(***************************************************************************)
(* Section files and Section records (SpecExtract)                         *)
(***************************************************************************)
\* the section file has its record: sections.<idx> exists and carries its title
HasRecord(name) ==
    LET sections == GetAllSections(file).m
        key == ToString(name[1])
    IN  /\ key \in DOMAIN sections
        /\ HasKey(sections[key], "title")
        /\ sections[key].m["title"] = Str(artifacts[name].title)

\* C12: when no run is in progress (the last one returned or was terminated at
\* any step), every section file in the output directory has its Section record
\* and every record stored by the last run has its section file.
C12_WholeRecords ==
    (xpc = "idle") =>
        /\ \A name \in DOMAIN artifacts : HasRecord(name)
        /\ \A i \in 1..Len(runlog.persisted) :
                \E name \in DOMAIN artifacts : name[1] = runlog.persisted[i]

(***************************************************************************)
(* The section calls of the store: add_section, set_section_content,       *)
(* set_section_summary_content, set_section_chunks, set_source_file.       *)
(* Section and summary files are kept in artifacts under their paths.      *)
(***************************************************************************)
SectionIdxs == {0, 1}
SectionTitles == {"A", "B", ""}

SectionInitFiles ==
    { f \in StoreInitFiles : f.k \in {"missing", "json"} }

\* the record a call found: what it raised, returned and left in the backing file
Outcome(raised, ret, f) == [raised |-> raised, ret |-> ret, file |-> f]

SectionFile(idx, title) ==
    SectionMetadata(idx, [title |-> title, san |-> SanitizeWord(title)]).m["section_file"].s

\* Path(section_file_path).name for the section files of the model
SectionFileNames ==
    { [path |-> "sections/" \o ToString(i), name |-> ToString(i)] : i \in -3..3 }
        \cup { [path |-> SectionFile(i, t),
                 name |-> ToString(i) \o "_" \o SanitizeWord(t) \o ".txt"] :
                    i \in SectionIdxs, t \in SectionTitles }

PathName(path) == (CHOOSE e \in SectionFileNames : e.path = path).name

SectionText(title, size) == [title |-> title, paras |-> <<size>>]

SectionsInit ==
    /\ file \in SectionInitFiles
    /\ StoreIdle /\ RaceIdle /\ ChunkIdle /\ PureIdle /\ TransIdle
    /\ doc = <<>> /\ artifacts = EmptyMap /\ xpc = "off" /\ pos = 0 /\ counter = 0
    /\ pend = <<>> /\ hist = <<>> /\ runlog = <<>>

\* add_section(idx, section_title, section_content, section_summary_content)
AddSection ==
    /\ nops < MaxOps
    /\ \E idx \in SectionIdxs, title \in SectionTitles, with_summary \in BOOLEAN :
          LET section_file == SectionFile(idx, title)
              summary_file == "summaries/" \o PathName(section_file)
              base == SectionMetadata(idx, [title |-> title, san |-> SanitizeWord(title)])
              section_metadata ==
                  IF with_summary THEN Dict(Put(base.m, "summary_file", Str(summary_file)))
                  ELSE base
              path == <<"sections", ToString(idx)>>
              out == Set(file, path, section_metadata, "ok")
              written == Put(artifacts, section_file, SectionText(title, 3))
          IN  /\ artifacts' = IF with_summary
                              THEN Put(written, summary_file, SectionText(title, 1))
                              ELSE written
              /\ file' = out.file
              /\ last' = Call("add_section", path, section_metadata, "ok",
                              Outcome(out.raised,
                                      IF out.raised THEN Null ELSE section_metadata,
                                      out.file))
    /\ nops' = nops + 1
    /\ UNCHANGED <<built, raceVars, chunkVars, pureVars, transVars,
                   doc, xpc, pos, counter, pend, hist, runlog>>

\* what set_section_content and set_section_summary_content do once the target
\* file is known: write it, stamp the record, set it; they return True
UpdateSection(op, idx, section_meta, target, text, changes) ==
    LET path == <<"sections", ToString(idx)>>
        stamped == Dict([k \in DOMAIN section_meta.m \cup DOMAIN changes \cup {"updated_at"} |->
                        IF k = "updated_at" THEN Str("now")
                        ELSE IF k \in DOMAIN changes THEN changes[k]
                        ELSE section_meta.m[k]])
        out == Set(file, path, stamped, "ok")
    IN  /\ artifacts' = Put(artifacts, target, text)
        /\ file' = out.file
        /\ last' = Call(op, path, stamped, "ok",
                        Outcome(FALSE, Bool(~out.raised), out.file))

\* the first lines of both calls: the record is looked up; without a record or
\* without its section_file the call returns False, and a record that is not a
\* mapping makes section_meta.get raise
LookupSection(op, idx) ==
    LET path == <<"sections", ToString(idx)>>
        got == Get(file, path, Null)
    IN  [got |-> got,
         usable |-> /\ ~got.raised /\ IsDict(got.ret)
                    /\ HasKey(got.ret, "section_file") /\ Truthy(got.ret.m["section_file"]),
         refused |-> Call(op, path, Null, "ok",
                          Outcome(got.raised \/ (Truthy(got.ret) /\ ~IsDict(got.ret)),
                                  IF got.raised \/ (Truthy(got.ret) /\ ~IsDict(got.ret))
                                  THEN Null ELSE Bool(FALSE),
                                  got.file))]

TitleOf(section_meta) ==
    IF HasKey(section_meta, "title") /\ section_meta.m["title"].t = "str"
    THEN section_meta.m["title"].s ELSE ""

\* set_section_content(section_idx, section_content)
SetSectionContent ==
    /\ nops < MaxOps
    /\ \E idx \in SectionIdxs :
          LET found == LookupSection("set_section_content", idx)
              section_meta == found.got.ret
          IN  IF found.usable
              THEN UpdateSection("set_section_content", idx, section_meta,
                                 section_meta.m["section_file"].s,
                                 SectionText(TitleOf(section_meta), 5), EmptyMap)
              ELSE /\ file' = found.got.file
                   /\ last' = found.refused
                   /\ UNCHANGED artifacts
    /\ nops' = nops + 1
    /\ UNCHANGED <<built, raceVars, chunkVars, pureVars, transVars,
                   doc, xpc, pos, counter, pend, hist, runlog>>

\* set_section_summary_content(section_idx, section_summary_content)
SetSectionSummaryContent ==
    /\ nops < MaxOps
    /\ \E idx \in SectionIdxs :
          LET found == LookupSection("set_section_summary_content", idx)
              section_meta == found.got.ret
              summary_file_path == "summaries/" \o PathName(section_meta.m["section_file"].s)
          IN  IF found.usable
              THEN UpdateSection("set_section_summary_content", idx, section_meta,
                                 summary_file_path,
                                 SectionText(TitleOf(section_meta), 1),
                                 [k \in {"summary_file"} |-> Str(summary_file_path)])
              ELSE /\ file' = found.got.file
                   /\ last' = found.refused
                   /\ UNCHANGED artifacts
    /\ nops' = nops + 1
    /\ UNCHANGED <<built, raceVars, chunkVars, pureVars, transVars,
                   doc, xpc, pos, counter, pend, hist, runlog>>

\* set_section_chunks(section_idx, section_file, chunks): two set calls
SetSectionChunks ==
    /\ nops < MaxOps
    /\ \E idx \in SectionIdxs, chunks \in {Dict(EmptyMap), Dict([k \in {"0"} |-> ChunkRec(0)])} :
          LET section_key == "section_" \o ToString(idx)
              first == Set(file, <<"chunks", section_key, "section_file">>,
                           Str("sections/" \o ToString(idx)), "ok")
              second == Set(first.file, <<"chunks", section_key, "chunks">>, chunks, "ok")
              out == IF first.raised THEN first ELSE second
          IN  /\ file' = out.file
              /\ last' = Call("set_section_chunks", <<"chunks", section_key>>, chunks, "ok", out)
    /\ nops' = nops + 1
    /\ UNCHANGED <<built, raceVars, extractVars, chunkVars, pureVars, transVars>>

\* set_source_file(file_path)
SetSourceFile ==
    /\ nops < MaxOps
    /\ LET out == Set(file, <<"source_file">>, Str("book.fb2"), "ok")
       IN  /\ file' = out.file
           /\ last' = Call("set_source_file", <<"source_file">>, Str("book.fb2"), "ok", out)
    /\ nops' = nops + 1
    /\ UNCHANGED <<built, raceVars, extractVars, chunkVars, pureVars, transVars>>

SectionsNext ==
    \/ AddSection \/ SetSectionContent \/ SetSectionSummaryContent
    \/ SetSectionChunks \/ SetSourceFile

SpecSections == SectionsInit /\ [][SectionsNext]_vars

\* the Section records a load of the backing file sees
SectionsOf(f) ==
    LET d == View(f)
    IN  IF IsDict(d) /\ HasKey(d, "sections") /\ IsDict(d.m["sections"])
        THEN d.m["sections"].m ELSE EmptyMap

Keeps(before, after) ==
    \A field \in {"idx", "title", "section_file"} :
        HasKey(before, field) => (HasKey(after, field) /\ after.m[field] = before.m[field])

\* C13: a call of add_section, set_section_content, set_section_summary_content,
\* set_section_chunks or set_source_file leaves every section index in the store
\* and leaves idx, title and section_file of every Section record as they were.
C13_SectionsNeverShrink ==
    (last.op \in {"add_section", "set_section_content", "set_section_summary_content",
                  "set_section_chunks", "set_source_file"}) =>
        \A key \in DOMAIN SectionsOf(last.pre) :
            /\ key \in DOMAIN SectionsOf(file)
            /\ Keeps(SectionsOf(last.pre)[key], SectionsOf(file)[key])

(***************************************************************************)
(* extract_section_content on an element tree.  A node is a string or an   *)
(* element with a name and children, as BeautifulSoup gives them.  The     *)
(* returned string is given by its lines (it is "\n".join(content)), and a *)
(* line by the stripped strings that get_text concatenates.                *)
(***************************************************************************)
MaxItems == 3

Text(s) == [kind |-> "text", name |-> "", s |-> s, kids |-> <<>>]
Elem(name, kids) == [kind |-> "tag", name |-> name, s |-> "", kids |-> kids]

\* str.strip() on the strings of the model
Strip(s) ==
    CASE s = " " -> ""
      [] s = " own " -> "own"
      [] OTHER -> s

\* child.get_text(strip=True): the stripped strings of the whole subtree, in
\* document order, without the empty ones
RECURSIVE GetText(_)
RECURSIVE GetTextOfAll(_)
GetText(node) ==
    IF node.kind = "text"
    THEN (IF Strip(node.s) = "" THEN <<>> ELSE <<Strip(node.s)>>)
    ELSE GetTextOfAll(node.kids)
GetTextOfAll(nodes) ==
    IF nodes = <<>> THEN <<>> ELSE GetText(Head(nodes)) \o GetTextOfAll(Tail(nodes))

\* the content with the text of title children kept
ExtractWithTitles(section_elem) ==
    LET Kept(child) == child.name # "section" /\ GetText(child) # <<>>
        kept == SelectSeq(section_elem.kids, Kept)
    IN  [i \in 1..Len(kept) |-> GetText(kept[i])]

\* the loop over section_elem.children
RECURSIVE ContentOf(_)
ContentOf(children) ==
    IF children = <<>> THEN <<>>
    ELSE LET child == Head(children)
             text == GetText(child)
         IN  (IF child.kind = "tag" /\ child.name \in {"section", "title"} THEN <<>>
              ELSE IF text = <<>> THEN <<>>
              ELSE <<text>>)
                \o ContentOf(Tail(children))

ExtractSectionContent(section_elem) == ContentOf(section_elem.kids)

TitleElem(s) == Elem("title", <<Elem("p", <<Text(s)>>)>>)

\* the children a section element of the model can have
Items ==
    { Text(" own "), Text(" "),
      Elem("p", <<Text("para"), Elem("emphasis", <<Text("em")>>)>>),
      TitleElem("Head"),
      Elem("section", <<TitleElem("Sub"), Elem("p", <<Text("deep")>>)>>),
      Elem("poem", <<TitleElem("Ode"), Elem("stanza", <<Elem("v", <<Text("verse")>>)>>)>>),
      Elem("cite", <<Elem("section", <<Elem("p", <<Text("inner")>>)>>)>>) }

SectionElems == { Elem("section", kids) : kids \in UNION { [1..n -> Items] : n \in 1..MaxItems } }

NoContent == [called |-> FALSE, lines |-> <<>>]

ProgramIdle ==
    StoreIdle /\ RaceIdle /\ ExtractIdle /\ ChunkIdle /\ TransIdle /\ file = Missing

ContentInit ==
    /\ ProgramIdle
    /\ xml \in SectionElems
    /\ content = NoContent
    /\ sinput = <<>> /\ sparts = <<>>

ExtractContent ==
    /\ ~content.called
    /\ content' = [called |-> TRUE, lines |-> ExtractSectionContent(xml)]
    /\ UNCHANGED <<storeVars, raceVars, extractVars, chunkVars, transVars,
                   xml, sinput, sparts>>

ContentNext == ExtractContent

SpecContent == ContentInit /\ [][ContentNext]_vars

(***************************************************************************)
(* Properties of extract_section_content (SpecContent)                     *)
(***************************************************************************)
Range(q) == {q[i] : i \in 1..Len(q)}

\* the strings of a returned content
Strings(lines) == UNION {Range(lines[i]) : i \in 1..Len(lines)}

\* the strings of a subtree; with inside = FALSE only those that have an
\* element with this name above them (the root of the subtree counts)
RECURSIVE StringsUnder(_, _, _)
StringsUnder(node, name, inside) ==
    IF node.kind = "text"
    THEN (IF inside /\ Strip(node.s) # "" THEN {Strip(node.s)} ELSE {})
    ELSE UNION { StringsUnder(node.kids[i], name, inside \/ node.name = name) :
                    i \in 1..Len(node.kids) }

AllStrings(node) == StringsUnder(node, "", TRUE)

\* strings of xml below a descendant element of this name
Below(name) ==
    UNION { StringsUnder(xml.kids[i], name, FALSE) : i \in 1..Len(xml.kids) }

\* strings of xml that are not below a descendant section element
OutsideSections ==
    UNION { AllStrings(xml.kids[i]) : i \in 1..Len(xml.kids) } \ Below("section")

\* C14 as stated: the content holds no string that occurs only inside a descendant
\* section element and no string of a title element.
C14_NoSectionOrTitleText ==
    content.called =>
        /\ Strings(content.lines) \cap (Below("section") \ OutsideSections) = {}
        /\ Strings(content.lines) \cap Below("title") = {}

ChildrenNamed(names) == {i \in 1..Len(xml.kids) : xml.kids[i].name \in names}

\* C14, amended: the content holds exactly the strings of the direct children that
\* are neither section nor title elements, and none of a child section or of a
\* child title.
C14_DirectChildrenOnly ==
    content.called =>
        /\ Strings(content.lines) =
                UNION { AllStrings(xml.kids[i]) :
                            i \in 1..Len(xml.kids) \ ChildrenNamed({"section", "title"}) }
        /\ \A i \in ChildrenNamed({"section", "title"}) :
                Strings(content.lines) \cap AllStrings(xml.kids[i]) = {}

\* content of a section with a title, a paragraph and a child section
C14_Witness ==
    /\ content.called
    /\ ChildrenNamed({"section"}) # {} /\ ChildrenNamed({"title"}) # {}
    /\ ChildrenNamed({"p"}) # {}
    /\ content.lines = <<<<"para", "em">>>>

(***************************************************************************)
(* split_long_section_by_paragraphs on strings.  A content is a sequence   *)
(* of characters; SplitLongSectionByParagraphs above decides, from the     *)
(* lengths of the paragraphs, which paragraphs go into which part.         *)
(***************************************************************************)
MaxChars == 7

Chars == {"x", "\n"}

\* content.split('\n\n'): cut at every "\n\n", leftmost first
RECURSIVE SplitParagraphs(_, _, _, _)
SplitParagraphs(text, i, paragraph, paragraphs) ==
    IF i > Len(text) THEN Append(paragraphs, paragraph)
    ELSE IF i < Len(text) /\ text[i] = "\n" /\ text[i + 1] = "\n"
         THEN SplitParagraphs(text, i + 2, <<>>, Append(paragraphs, paragraph))
         ELSE SplitParagraphs(text, i + 1, Append(paragraph, text[i]), paragraphs)

\* '\n\n'.join(current_part)
RECURSIVE JoinParagraphs(_)
JoinParagraphs(paragraphs) ==
    IF paragraphs = <<>> THEN <<>>
    ELSE IF Len(paragraphs) = 1 THEN paragraphs[1]
    ELSE paragraphs[1] \o <<"\n", "\n">> \o JoinParagraphs(Tail(paragraphs))

\* the number of paragraphs in the parts before part n
RECURSIVE ParagraphsBefore(_, _)
ParagraphsBefore(parts, n) ==
    IF n = 1 THEN 0 ELSE ParagraphsBefore(parts, n - 1) + Len(parts[n - 1].paras)

\* the (part_title, part_content) list the call returns
SplitContent(text, title, max_size) ==
    LET paragraphs == SplitParagraphs(text, 1, <<>>, <<>>)
        sizes == [i \in 1..Len(paragraphs) |-> Len(paragraphs[i])]
        parts == SplitLongSectionByParagraphs(
                    [title |-> title, san |-> SanitizeWord(title), paras |-> sizes], max_size)
    IN  IF Len(text) <= max_size THEN <<[title |-> title, content |-> text]>>
        ELSE [n \in 1..Len(parts) |->
                [title |-> parts[n].title,
                 content |-> JoinParagraphs(
                    SubSeq(paragraphs, ParagraphsBefore(parts, n) + 1,
                           ParagraphsBefore(parts, n) + Len(parts[n].paras)))]]

Contents == UNION { [1..n -> Chars] : n \in 1..MaxChars }

SplitThresholds == 1..3

NoParts == [called |-> FALSE, parts |-> <<>>]

SplitInit ==
    /\ ProgramIdle
    /\ xml = <<>> /\ content = <<>>
    /\ sinput \in [content : Contents, max_size : SplitThresholds]
    /\ sparts = NoParts

SplitCall ==
    /\ ~sparts.called
    /\ sparts' = [called |-> TRUE,
                  parts |-> SplitContent(sinput.content, "A", sinput.max_size)]
    /\ UNCHANGED <<storeVars, raceVars, extractVars, chunkVars, transVars,
                   xml, content, sinput>>

SplitNext == SplitCall

SpecSplit == SplitInit /\ [][SplitNext]_vars

(***************************************************************************)
(* Properties of split_long_section_by_paragraphs (SpecSplit)              *)
(***************************************************************************)
PartContents == [n \in 1..Len(sparts.parts) |-> sparts.parts[n].content]

SplitApplies == sparts.called /\ Len(sinput.content) > sinput.max_size

\* C15: for a content longer than the threshold, the contents of the returned
\* parts joined in order with "\n\n" are the content.
C15_PartsRejoin ==
    SplitApplies => JoinParagraphs(PartContents) = sinput.content

\* a content of three paragraphs or more came back in two parts or more, one of
\* them holding two paragraphs
C15_Witness ==
    /\ SplitApplies
    /\ Len(SplitParagraphs(sinput.content, 1, <<>>, <<>>)) >= 3
    /\ \E i \in 1..Len(sinput.content) : sinput.content[i] = "x"
    /\ Len(sparts.parts) >= 2
    /\ \E n \in 1..Len(sparts.parts) :
            Len(SplitParagraphs(sparts.parts[n].content, 1, <<>>, <<>>)) >= 2
    /\ JoinParagraphs(PartContents) = sinput.content

\* C16: for a content longer than the threshold, the number of returned parts is
\* ceil(len(content) / threshold).
C16_PartCountIsCeiling ==
    SplitApplies =>
        Len(sparts.parts) =
            (Len(sinput.content) + sinput.max_size - 1) \div sinput.max_size


(***************************************************************************)
(* Properties of the chunks a call returns (SpecChunk)                     *)
(***************************************************************************)
\* the call has split its text: filtered_chunks is what it returns
ChunksReturned == cpc # "idle" \/ chist # <<>>

\* the characters of the words of the texts
Spell(word) ==
    CASE word = "aa" -> <<"a", "a">>
      [] word = "b." -> <<"b", ".">>
      [] word = "cccc." -> <<"c", "c", "c", "c", ".">>
      [] word = "d." -> <<"d", ".">>

SpellGap(gap) == [i \in 1..Len(gap) |-> IF gap = " " THEN " " ELSE "\n"]

\* the characters of words joined by single spaces
RECURSIVE SpellWords(_)
SpellWords(words) ==
    IF words = <<>> THEN <<>>
    ELSE IF Len(words) = 1 THEN Spell(words[1])
    ELSE Spell(words[1]) \o <<" ">> \o SpellWords(Tail(words))

\* the characters of the normalized input
RECURSIVE SpellText(_)
SpellText(text) ==
    IF text = <<>> THEN <<>>
    ELSE SpellWords(Head(text).words) \o SpellGap(Head(text).gap) \o SpellText(Tail(text))

NormalizedInput == SpellText(NormaliseText(ctext))

\* C17: every character offset of the normalized input lies in the span
\* [start, end) of a returned chunk.
C17_EveryOffsetCovered ==
    ChunksReturned =>
        \A offset \in 0..(Len(NormalizedInput) - 1) :
            \E k \in 1..Len(clocal.filtered_chunks) :
                /\ clocal.filtered_chunks[k].start <= offset
                /\ offset < clocal.filtered_chunks[k].end

\* the characters of chunk k whose offsets the span of chunk k - 1 does not cover
NotOverlapping(chunks, k) ==
    LET chars == SpellWords(chunks[k].text)
        covered == IF k = 1 THEN 0
                   ELSE IF chunks[k - 1].end <= chunks[k].start THEN 0
                   ELSE chunks[k - 1].end - chunks[k].start
    IN  IF covered >= Len(chars) THEN <<>> ELSE SubSeq(chars, covered + 1, Len(chars))

RECURSIVE WithoutOverlaps(_, _)
WithoutOverlaps(chunks, k) ==
    IF k > Len(chunks) THEN <<>>
    ELSE NotOverlapping(chunks, k) \o WithoutOverlaps(chunks, k + 1)

\* C18: the returned chunks, each without the characters of its span that the
\* span of the chunk before it covers, concatenate to the normalized input.
C18_ChunksReconstructInput ==
    ChunksReturned => WithoutOverlaps(clocal.filtered_chunks, 1) = NormalizedInput

RecordsBefore == StoredChunks(file, clocal.section_idx)

\* the largest index among the keys of the records
MaxExisting(records) ==
    SetMax({-1} \cup {IntOfKey(k) : k \in {x \in DOMAIN records : ParsesInt(x)}})

\* the call is about to save and return, for a section that had chunk records
RerunEnds == cpc = "persist" /\ RecordsBefore # EmptyMap

\* C20: a run for a section that has chunk records gives its k-th new chunk the
\* index max + k, max the largest existing index, and leaves every record the
\* section had under its key, unchanged, in what it returns and in the store;
\* what it saves holds the new records under their indices.
C20_RerunKeepsAndContinues ==
    [][RerunEnds =>
        LET max == MaxExisting(RecordsBefore)
            returned == clocal.chunks_metadata
            RecordsAfter == StoredChunks(file', clocal.section_idx)
            New(k) == ChunkMeta(max + k, clocal.filtered_chunks[k], cargs.section_file)
        IN  /\ \A k \in 1..Len(clocal.filtered_chunks) :
                /\ ToString(max + k) \in DOMAIN returned
                /\ returned[ToString(max + k)] = New(k)
                /\ ToString(max + k) \notin DOMAIN RecordsBefore
                /\ Truthy(cargs.section_file) =>
                    /\ ToString(max + k) \in DOMAIN RecordsAfter
                    /\ RecordsAfter[ToString(max + k)] = New(k)
            /\ \A key \in DOMAIN RecordsBefore :
                /\ key \in DOMAIN returned /\ returned[key] = RecordsBefore[key]
                /\ key \in DOMAIN RecordsAfter /\ RecordsAfter[key] = RecordsBefore[key]
    ]_vars

\* a run over the records 0, 2 and x has saved two new chunks as 3 and 4
C20_Witness ==
    /\ cpc = "idle" /\ Len(chist) = 1
    /\ chist[1].returned = 2
    /\ DOMAIN chist[1].stored = {"0", "2", "x", "3", "4"}
    /\ \A key \in {"0", "2", "x"} :
            chist[1].stored[key] = ChunkRec(IF key = "x" THEN 7 ELSE IntOfKey(key))


(***************************************************************************)
(* exists: self.get(path, object()) is not object()                        *)
(***************************************************************************)
\* object(): each evaluation makes a new object, told apart by its identity
NewObject(id) == [t |-> "object", id |-> id]

\* "a is b" where b is an object made by object(): only that same object is it
Is(a, b) == a.t = "object" /\ a.id = b.id

Exists(f, path) ==
    LET out == Get(f, path, NewObject(1))
    IN  [raised |-> out.raised,
         ret |-> IF out.raised THEN Null ELSE Bool(~Is(out.ret, NewObject(2))),
         file |-> out.file]

OpExists ==
    /\ built /\ nops < MaxOps
    /\ \E path \in StorePaths :
          LET out == Exists(file, path)
          IN  /\ file' = out.file
              /\ last' = Call("exists", path, Null, "ok", out)
    /\ nops' = nops + 1
    /\ UNCHANGED <<built, raceVars, extractVars, chunkVars, pureVars, transVars>>

ExistsNext == Construct \/ OpSet \/ OpDelete \/ OpExists

SpecExists == StoreInit /\ [][ExistsNext]_vars

(***************************************************************************)
(* Properties of exists (SpecExists)                                       *)
(***************************************************************************)
\* C21: exists(path) returns True exactly when every segment of the path is
\* present in the store as a load sees it, and False otherwise.
C21_ExistsTellsPresence ==
    (last.op = "exists" /\ ~last.raised) =>
        (last.ret = Bool(Present(View(last.pre), last.path)))


(***************************************************************************)
(* Properties of the overlap between chunks (SpecChunk)                    *)
(***************************************************************************)
\* the sentences of the tokenizer and the chunks of the loop, before the filter
Sentences == SentTokenize(NormaliseText(ctext))

LoopChunks == RawChunks(Sentences, cargs)

\* the sentences a..b as the words of a chunk text
Run(a, b) == Join(SubSeq(Sentences, a, b))

\* the characters of the sentences a..b, each counted with the space after it
RunLen(a, b) == SumSeq([i \in 1..(b - a + 1) |-> TextLen(Sentences[a + i - 1]) + 1])

\* the sentences c..b are the seed the closed chunk a..b leaves: the smallest
\* trailing run of at least overlap_chars characters, or all of it
IsSeed(a, b, c) ==
    /\ a <= c /\ c <= b + 1
    /\ RunLen(c, b) >= cargs.overlap_chars \/ c = a
    /\ c <= b => RunLen(c + 1, b) < cargs.overlap_chars

\* C22: every chunk the loop makes after a closure starts with the smallest run
\* of trailing whole sentences of the closed chunk that totals overlap_chars
\* characters (all of it if it is shorter), followed by whole sentences.
C22_SeedIsWholeSentences ==
    ChunksReturned =>
        \A k \in 2..Len(LoopChunks) :
            \E a, b, c, d \in 1..(Len(Sentences) + 1) :
                /\ a <= b /\ b < d /\ d <= Len(Sentences)
                /\ LoopChunks[k - 1].text = Run(a, b)
                /\ IsSeed(a, b, c)
                /\ LoopChunks[k].text = Run(c, d)


\* C28: when no sentence is longer than max_chunk_size, no returned chunk is
\* longer than max_chunk_size.
C28_ChunksWithinMaxSize ==
    (/\ ChunksReturned
     /\ \A i \in 1..Len(Sentences) : TextLen(Sentences[i]) <= cargs.max_chunk_size) =>
        \A k \in 1..Len(clocal.filtered_chunks) :
            TextLen(clocal.filtered_chunks[k].text) <= cargs.max_chunk_size


(***************************************************************************)
(* get_all_sections, get_all_chunks over backing files of any shape        *)
(***************************************************************************)
\* get_all_sections and get_all_chunks: self.get(name, {})
GetAll(f, name) == Get(f, <<name>>, Dict(EmptyMap))

\* backing files whose JSON value is not the expected shape
LoadInitFiles ==
    StoreInitFiles \cup
    { JsonFile(Null), JsonFile(Str("book")),
      JsonFile(Dict([k \in {"sections"} |-> Str("junk")])),
      JsonFile(Dict([k \in {"sections", "chunks"} |->
            IF k = "sections" THEN Dict(EmptyMap) ELSE Null])) }

LoadInit ==
    /\ file \in LoadInitFiles
    /\ built = FALSE /\ nops = 0 /\ last = NoCall
    /\ RaceIdle /\ ExtractIdle /\ ChunkIdle /\ PureIdle /\ TransIdle

OpGetAll ==
    /\ built /\ nops < MaxOps
    /\ \E op \in {"get_all_sections", "get_all_chunks"} :
          LET out == GetAll(file, IF op = "get_all_sections" THEN "sections" ELSE "chunks")
          IN  /\ file' = out.file
              /\ last' = Call(op, <<>>, Null, "ok", out)
    /\ nops' = nops + 1
    /\ UNCHANGED <<built, raceVars, extractVars, chunkVars, pureVars, transVars>>

LoadNext == Construct \/ OpSet \/ OpGetAll

SpecLoad == LoadInit /\ [][LoadNext]_vars

(***************************************************************************)
(* Properties of a load (SpecLoad)                                         *)
(***************************************************************************)
\* C23: what a load of the backing file yields has the branches sections and
\* chunks, each a mapping, and get_all_sections and get_all_chunks return a
\* mapping.
C23_BranchesAreMappings ==
    (last.op \in {"get_all_sections", "get_all_chunks"} /\ ~last.raised) =>
        /\ \A name \in {"sections", "chunks"} :
                /\ HasKey(View(last.pre), name)
                /\ IsDict(View(last.pre).m[name])
        /\ IsDict(last.ret)


(***************************************************************************)
(* Properties of single candidates of an extraction run (SpecExtract)      *)
(***************************************************************************)
\* the run is at a candidate whose title a stored Section record has
MeetsStoredTitle ==
    /\ xpc = "scan" /\ pos <= Len(Units(doc))
    /\ RecordsTitled(Units(doc)[pos].title) # {}

\* C24: a candidate whose title is the title of a stored Section record is
\* passed over: the store, the section files and the index counter stay as they
\* are and no record is about to be written.
C24_StoredTitleIsSkipped ==
    [][MeetsStoredTitle =>
        /\ file' = file
        /\ artifacts' = artifacts
        /\ counter' = counter
        /\ xpc' # "record"]_vars


(***************************************************************************)
(* Properties of the nodes a run persists (SpecExtract)                    *)
(***************************************************************************)
\* the nodes of a list of trees that have no child section and content that is
\* not blank, a node longer than the limit counted once for each of its parts
RECURSIVE ContentLeaves(_)
ContentLeaves(nodes) ==
    IF nodes = <<>> THEN 0
    ELSE LET node == Head(nodes)
             own == IF node.kids # <<>> THEN ContentLeaves(node.kids)
                    ELSE IF ContentLen(node.paras) = 0 THEN 0
                    ELSE Len(SplitLongSectionByParagraphs(
                                [title |-> "", san |-> "", paras |-> node.paras],
                                MaxSectionSize))
         IN  own + ContentLeaves(Tail(nodes))

\* C25: a run takes indices and writes records only for nodes without child
\* sections whose content is not blank: the indices it has used and the records
\* it has persisted are never more than such nodes, and no section file holds
\* blank content.
C25_OnlyLeavesWithContent ==
    /\ counter - StartCounter(runlog.k0) <= ContentLeaves(doc)
    /\ Len(runlog.persisted) <= ContentLeaves(doc)
    /\ \A name \in DOMAIN artifacts : ContentLen(artifacts[name].paras) > 0

\* a completed run over a root with content of its own, a blank child and a
\* child with content has persisted one record and used one index
C25_Witness ==
    /\ xpc = "idle" /\ Len(hist) = 1 /\ hist[1].end = "done"
    /\ Len(doc[1].kids) = 2
    /\ ContentLen(doc[1].paras) > 0
    /\ ContentLen(doc[1].kids[1].paras) = 0
    /\ ContentLen(doc[1].kids[2].paras) > 0
    /\ Len(runlog.persisted) = 1
    /\ counter = StartCounter(runlog.k0) + 1


\* the titles of the titled nodes on the way to each node without child
\* sections, joined by " - "
RECURSIVE PathTitles(_, _)
PathTitles(nodes, parent_title) ==
    IF nodes = <<>> THEN {}
    ELSE LET node == Head(nodes)
             own == IF node.title.has THEN node.title.text ELSE ""
             joined == IF own = "" THEN parent_title
                       ELSE IF parent_title = "" THEN own
                       ELSE parent_title \o " - " \o own
         IN  (IF node.kids # <<>> THEN PathTitles(node.kids, joined) ELSE {joined})
                \cup PathTitles(Tail(nodes), parent_title)

NoLongLeaf ==
    \A j \in 1..Len(LeavesOfAll(doc, "", "")) :
        ContentLen(LeavesOfAll(doc, "", "")[j].paras) <= MaxSectionSize

\* C26: the title of every section a run has persisted is the titles of the
\* titled nodes on the path from the root to a leaf, joined by " - " (stated
\* for documents without a leaf that is split into parts).
C26_TitleIsPathOfTitles ==
    NoLongLeaf =>
        \A i \in 1..Len(runlog.persisted) :
            LET record == GetAllSections(file).m[ToString(runlog.persisted[i])]
            IN  \E t \in PathTitles(doc, "") : record.m["title"] = Str(t)


(***************************************************************************)
(* Properties of the parts of a split (SpecSplit)                          *)
(***************************************************************************)
\* the paragraphs of the content
Paragraphs == SplitParagraphs(sinput.content, 1, <<>>, <<>>)

\* ends[n] is the last paragraph of part n: the parts are runs of one paragraph
\* or more that follow each other and use up the paragraphs
CutsParagraphs(ends) ==
    LET k == Len(sparts.parts)
        First(n) == IF n = 1 THEN 1 ELSE ends[n - 1] + 1
    IN  /\ ends[k] = Len(Paragraphs)
        /\ \A n \in 1..k :
            /\ First(n) <= ends[n]
            /\ sparts.parts[n].content =
                    JoinParagraphs(SubSeq(Paragraphs, First(n), ends[n]))

\* C27: for a content longer than the threshold, the parts are non-empty runs of
\* consecutive whole paragraphs that together hold every paragraph once, in
\* order, and part n is titled "<title> - <part label> n".
C27_PartsAreParagraphRuns ==
    SplitApplies =>
        /\ sparts.parts # <<>>
        /\ \E ends \in [1..Len(sparts.parts) -> 1..Len(Paragraphs)] : CutsParagraphs(ends)
        /\ \A n \in 1..Len(sparts.parts) :
                sparts.parts[n].title = "A - chast " \o ToString(n)

\* a content of four paragraphs came back in three parts
C27_Witness ==
    /\ SplitApplies
    /\ Len(Paragraphs) = 4
    /\ Len(sparts.parts) = 3
    /\ sparts.parts[3].title = "A - chast 3"
    /\ \E i \in 1..Len(sinput.content) : sinput.content[i] = "x"


(***************************************************************************)
(* t_directory.py: process_directory.  The directory holds the media files *)
(* 1..n, a file with a larger number being the more recently modified one; *)
(* next to a media file lie the transcription files that match             *)
(* <stem>.gigaam-<revision>-*.txt, of which the model keeps whether one is  *)
(* empty, one has text and one cannot be examined (stat raises OSError).   *)
(***************************************************************************)
MaxMedia == 2
MaxCount == 3

Found(empty, text, other) == [empty |-> empty, text |-> text, other |-> other]

\* get_transcription_status
GetTranscriptionStatus(found) ==
    IF ~found.empty /\ ~found.text /\ ~found.other THEN "NOT_ATTEMPTED"
    ELSE IF found.text THEN "SUCCESS"
    ELSE IF found.empty THEN "FAILED"
    ELSE "NOT_ATTEMPTED"

\* collect_media_files: the media files, without those whose status is SUCCESS
\* when skip_existing, sorted from the most recently modified one
RECURSIVE CollectFrom(_, _, _)
CollectFrom(n, dir, skip) ==
    IF n = 0 THEN <<>>
    ELSE (IF skip /\ GetTranscriptionStatus(dir[n]) = "SUCCESS" THEN <<>> ELSE <<n>>)
            \o CollectFrom(n - 1, dir, skip)

CollectMediaFiles(dir, skip) == CollectFrom(Len(dir), dir, skip)

\* stats[key] += 1; the model stops telling counts above MaxCount apart
Incremented(s, key) == [s EXCEPT ![key] = IF @ < MaxCount THEN @ + 1 ELSE @]

FoundChoices ==
    { Found(FALSE, FALSE, FALSE), Found(TRUE, FALSE, FALSE), Found(FALSE, TRUE, FALSE),
      Found(TRUE, TRUE, FALSE), Found(FALSE, FALSE, TRUE) }

TransInit ==
    /\ StoreIdle /\ RaceIdle /\ ExtractIdle /\ ChunkIdle /\ PureIdle /\ file = Missing
    /\ transcripts \in UNION { [1..n -> FoundChoices] : n \in 0..MaxMedia }
    /\ skip_existing \in BOOLEAN
    /\ failed_files = {}
    /\ stats = [total |-> 0, success |-> 0, failed |-> 0]
    /\ tpc = "start" /\ file_path = 0

\* the first scan: the files whose status is FAILED go into failed_files
InitialScan ==
    /\ tpc = "start"
    /\ LET initial_scan == CollectMediaFiles(transcripts, FALSE)
       IN  failed_files' = { initial_scan[i] : i \in
                {j \in 1..Len(initial_scan) :
                    GetTranscriptionStatus(transcripts[initial_scan[j]]) = "FAILED"} }
    /\ tpc' = "scan"
    /\ UNCHANGED <<storeVars, raceVars, extractVars, chunkVars, pureVars,
                   transcripts, skip_existing, stats, file_path>>

\* the top of the while loop: rescan, leave out failed_files, break or take
\* the first file
Rescan ==
    /\ tpc = "scan"
    /\ LET NotFailed(f) == f \notin failed_files
           media_files == SelectSeq(CollectMediaFiles(transcripts, skip_existing), NotFailed)
       IN  IF media_files = <<>>
           THEN /\ tpc' = "returned"
                /\ UNCHANGED <<stats, file_path>>
           ELSE /\ file_path' = media_files[1]
                /\ stats' = Incremented(stats, "total")
                /\ tpc' = "run"
    /\ UNCHANGED <<storeVars, raceVars, extractVars, chunkVars, pureVars,
                   transcripts, skip_existing, failed_files>>

\* process_single_file and the rest of the loop body: the subprocess ends with
\* a return code and leaves no transcription file, an empty one or one with text
ProcessSingleFile ==
    /\ tpc = "run"
    /\ \E returncode \in {0, 1}, produced \in {"none", "empty", "text"} :
          LET success == returncode = 0
          IN  /\ transcripts' =
                    [transcripts EXCEPT ![file_path] =
                        Found(@.empty \/ produced = "empty", @.text \/ produced = "text",
                              @.other)]
              /\ stats' = Incremented(stats, IF success THEN "success" ELSE "failed")
              /\ failed_files' = IF success THEN failed_files
                                 ELSE failed_files \cup {file_path}
    /\ tpc' = "scan"
    /\ UNCHANGED <<storeVars, raceVars, extractVars, chunkVars, pureVars,
                   skip_existing, file_path>>

TransNext == InitialScan \/ Rescan \/ ProcessSingleFile

SpecTranscribe == TransInit /\ [][TransNext]_vars

\* the interpreter keeps running the one thread of process_directory
SpecTranscribeFair == SpecTranscribe /\ WF_vars(TransNext)

(***************************************************************************)
(* Properties of process_directory (SpecTranscribeFair)                    *)
(***************************************************************************)
\* C29: process_directory eventually returns.
C29_ProcessDirectoryReturns == <>(tpc = "returned")


(***************************************************************************)
(* md_to_chunks.py run from the command line for one section after         *)
(* another: every run writes its chunk files into processed_book/chunks    *)
(***************************************************************************)
DirSections == {0, 1}

DirTexts ==
    { <<Sentence(<<"aa", "b.">>, " ")>>,
      <<Sentence(<<"cccc.">>, "\n\n\n"), Sentence(<<"d.">>, " ")>>,
      <<Sentence(<<"d.">>, " "), Sentence(<<"cccc.">>, "\n\n\n"), Sentence(<<"cccc.">>, " ")>> }

\* the arguments main passes on: --section-idx and --section-file of a section
DirArgs ==
    { [min_chunk_size |-> 0, max_chunk_size |-> 8, overlap_chars |-> 0,
       section_idx |-> Num(i), section_file |-> Str("sections/" \o ToString(i))] :
        i \in DirSections }

DirInitFile ==
    JsonFile(Dict([k \in {"sections", "chunks"} |->
        IF k = "sections"
        THEN Dict([i \in {ToString(j) : j \in DirSections} |->
                    SectionRec(IntOfKey(i), IF i = "0" THEN "A" ELSE "B")])
        ELSE Dict(EmptyMap)]))

DirInit ==
    /\ file = DirInitFile
    /\ StoreIdle /\ RaceIdle /\ ExtractIdle /\ PureIdle /\ TransIdle
    /\ ctext \in DirTexts
    /\ cargs \in DirArgs
    /\ cpc = "idle" /\ clocal = NoLocals
    /\ chunkfiles = EmptyMap /\ chist = <<>>

\* the command line is run again, for any section and text
NextCommand ==
    /\ cpc = "idle" /\ chist # <<>> /\ Len(chist) < MaxChunkRuns
    /\ ctext' \in DirTexts
    /\ cargs' \in DirArgs
    /\ UNCHANGED <<storeVars, raceVars, extractVars, pureVars, transVars,
                   cpc, clocal, chunkfiles, chist>>

DirNext == ChunkNext \/ NextCommand

SpecChunkDir == DirInit /\ [][DirNext]_vars

(***************************************************************************)
(* Properties of the chunk files (SpecChunkDir)                            *)
(***************************************************************************)
\* the chunk files that a chunk record of the store names
NamedChunkFiles ==
    { name \in DOMAIN chunkfiles :
        \E i \in DirSections :
            \E key \in DOMAIN StoredChunks(file, Num(i)) :
                LET record == StoredChunks(file, Num(i))[key]
                IN  /\ HasKey(record, "chunk_file")
                    /\ record.m["chunk_file"] = Str("chunks/" \o name) }

\* C30: a chunk file that a chunk record of the store names keeps the text it
\* holds: no later run writes another text into it.
C30_ChunkFilesAreKept ==
    [][\A name \in NamedChunkFiles :
            name \in DOMAIN chunkfiles' /\ chunkfiles'[name] = chunkfiles[name]]_vars

====
